---------------------------- MODULE Spec2Model ----------------------------
(***************************************************************************)
(* propdag: scheduling of forward / backward propagation over a DAG of     *)
(* nodes, with reference-counted cache eviction (template/TModel) and the  *)
(* reversed-graph variant (template2/T2Model), run with the toy node       *)
(* classes (ForwardToyNode, BackwardToyNode, Toy2Node).                    *)
(*                                                                         *)
(* A behaviour is: the caller wires pre_nodes / next_nodes, constructs a   *)
(* model (which sorts, validates and, for T2Model, reverses the edges),    *)
(* and calls run(), which is followed one node operation at a time.        *)
(***************************************************************************)
EXTENDS Integers, Sequences, FiniteSets, TLC

\* Largest number of nodes the caller creates.
NumNodes == 3
\* Largest number of distinct edges the caller wires.
MaxEdges == 3
\* Largest number of extra (duplicate) list entries the caller adds.
MaxDup == 1
WideNodes == 5
MaxWideEdges == 5
MaxFrames == 4

Node == 1..NumNodes
NoNode == 0

VARIABLES
    n,              \* number of nodes passed to the constructor: nodes = <<1, ..., n>>
    pre_nodes,      \* node -> its _pre_nodes list
    next_nodes,     \* node -> its _next_nodes list
    pre0,           \* pre_nodes as they were when the constructor was called
    next0,          \* next_nodes as they were when the constructor was called
    pc,             \* position of the caller / of run()
    kind,           \* "T" (TModel) or "T2" (T2Model)
    sort_strategy,  \* the sort_strategy argument
    prop_mode,      \* arguments.prop_mode (TModel only)
    clear_cache_during_running,
    err,            \* the exception that ended construction or run(): [type, names]
    nodes_sorted,   \* self._nodes
    user_input,     \* T2Model._user_input
    user_output,    \* T2Model._user_output
    all_backward_sorts, \* self._all_backward_sorts
    cache,          \* the shared cache: [bnds, symbnds, rlxs, cur_node]
    cache_counter,  \* run()'s reference-count table
    i,              \* index (1-based) of run()'s current node in nodes_sorted
    bwd_counter,    \* backsub()'s reference-count table
    j,              \* index (1-based) of backsub()'s current node
    ops,            \* every node operation invoked so far, in order
    node_class,     \* the class the nodes were created from
    own             \* the node created with a Cache or Arguments instance of its own

vars == <<n, pre_nodes, next_nodes, pre0, next0, pc, kind, sort_strategy, prop_mode,
          clear_cache_during_running, err, nodes_sorted, user_input, user_output,
          all_backward_sorts, cache, cache_counter, i, bwd_counter, j, ops,
          node_class, own>>

graphVars == <<n, pre_nodes, next_nodes>>
modelVars == <<kind, sort_strategy, prop_mode, clear_cache_during_running,
               nodes_sorted, user_input, user_output, all_backward_sorts,
               node_class, own>>

-----------------------------------------------------------------------------
(* Sequences and small helpers *)

Range(s) == {s[k] : k \in 1..Len(s)}

Reverse(s) == [k \in 1..Len(s) |-> s[Len(s) + 1 - k]]

\* The nodes passed to the constructor, in the order passed.
Nodes(m) == [k \in 1..m |-> k]

\* s with a copy of s[k] inserted right after position k.
DupAt(s, k) == SubSeq(s, 1, k) \o <<s[k]>> \o SubSeq(s, k + 1, Len(s))

\* Every order in which the elements of S can be iterated.
Orders(S) == {s \in [1..Cardinality(S) -> S] : Range(s) = S}

NoErr == [type |-> "none", names |-> <<>>]
Err(t) == [type |-> t, names |-> <<>>]
ErrNames(t, ns) == [type |-> t, names |-> ns]

EmptyCache == [bnds |-> {}, symbnds |-> {}, rlxs |-> {}, cur_node |-> NoNode]

-----------------------------------------------------------------------------
(* template/_sort.py (template2/_sort.py is the same code on the reversed    *)
(* graph).  P and N are the pre_nodes and next_nodes maps the sort reads.    *)

\* The result of a sort: raised (ValueError "Graph has a cycle") or an order.
SortRaised == [raised |-> TRUE, order |-> <<>>]
SortOk(order) == [raised |-> FALSE, order |-> order]

\* in_degrees = {node: len(set(node.pre_nodes)) for node in nodes}
in_degrees(nodes, P) == [v \in Range(nodes) |-> Cardinality(Range(P[v]))]

\* A release that enqueues a successor whenever its count is not positive.
RECURSIVE BfsSuccs(_, _, _, _)
BfsSuccs_requeue(succs, k, deg, queue) ==
    IF k > Len(succs) THEN [deg |-> deg, queue |-> queue]
    ELSE LET w == succs[k]
             d == deg[w] - 1
         IN BfsSuccs(succs, k + 1, [deg EXCEPT ![w] = d],
                     IF d <= 0 THEN Append(queue, w) ELSE queue)

\* for next_node in node.next_nodes: in_degrees[next_node] -= 1; enqueue at 0
BfsSuccs(succs, k, deg, queue) ==
    IF k > Len(succs) THEN [deg |-> deg, queue |-> queue]
    ELSE LET w == succs[k]
             d == deg[w] - 1
         IN BfsSuccs(succs, k + 1, [deg EXCEPT ![w] = d],
                     IF d = 0 THEN Append(queue, w) ELSE queue)

\* A sort that takes the node enqueued last (a stack, not a queue).
RECURSIVE BfsLoop_lifo(_, _, _, _)
BfsLoop_lifo(queue, sorted_nodes, deg, N) ==
    IF queue = <<>> THEN sorted_nodes
    ELSE LET node == queue[Len(queue)]
             r == BfsSuccs(N[node], 1, deg, SubSeq(queue, 1, Len(queue) - 1))
         IN BfsLoop_lifo(r.queue, Append(sorted_nodes, node), r.deg, N)

\* while queue: node = queue.pop(0); sorted_nodes.append(node); ...
RECURSIVE BfsLoop(_, _, _, _)
BfsLoop(queue, sorted_nodes, deg, N) ==
    IF queue = <<>> THEN sorted_nodes
    ELSE LET node == Head(queue)
             r == BfsSuccs(N[node], 1, deg, Tail(queue))
         IN BfsLoop(r.queue, Append(sorted_nodes, node), r.deg, N)

\* A sort that returns whatever it collected, without the length check.
CheckSortedLen_unchecked(sorted_nodes, nodes) == SortOk(sorted_nodes)

\* if len(sorted_nodes) != len(nodes): raise ValueError(cycle)
CheckSortedLen(sorted_nodes, nodes) ==
    IF Len(sorted_nodes) # Len(nodes) THEN SortRaised ELSE SortOk(sorted_nodes)

topo_sort_forward_bfs(nodes, P, N) ==
    LET deg == in_degrees(nodes, P)
        queue == SelectSeq(nodes, LAMBDA v : deg[v] = 0)
    IN CheckSortedLen(BfsLoop(queue, <<>>, deg, N), nodes)

\* The state of the depth-first sort: visited, temp_mark, sorted_nodes and
\* whether dfs() has raised.
DfsInit == [visited |-> {}, temp_mark |-> {}, sorted_nodes |-> <<>>, raised |-> FALSE]

\* if node in temp_mark: raise ValueError(cycle)
OnStack(node, st) == node \in st.temp_mark

RECURSIVE dfs(_, _, _)
RECURSIVE DfsSuccs(_, _, _, _)
dfs(node, st, N) ==
    IF st.raised THEN st
    ELSE IF OnStack(node, st) THEN [st EXCEPT !.raised = TRUE]
    ELSE IF node \in st.visited THEN st
    ELSE LET s1 == DfsSuccs(N[node], 1, [st EXCEPT !.temp_mark = @ \cup {node}], N)
         IN IF s1.raised THEN s1
            ELSE [s1 EXCEPT !.temp_mark = @ \ {node},
                            !.visited = @ \cup {node},
                            !.sorted_nodes = Append(@, node)]
DfsSuccs(succs, k, st, N) ==
    IF k > Len(succs) \/ st.raised THEN st
    ELSE DfsSuccs(succs, k + 1, dfs(succs[k], st, N), N)

\* for node in nodes: if len(node.pre_nodes) == 0: dfs(node)
RECURSIVE DfsRoots(_, _, _, _, _)
DfsRoots(nodes, k, st, P, N) ==
    IF k > Len(nodes) \/ st.raised THEN st
    ELSE DfsRoots(nodes, k + 1,
                  IF Len(P[nodes[k]]) = 0 THEN dfs(nodes[k], st, N) ELSE st, P, N)

topo_sort_forward_dfs(nodes, P, N) ==
    LET st == DfsRoots(nodes, 1, DfsInit, P, N)
    IN IF st.raised THEN SortRaised
       ELSE LET r == CheckSortedLen(st.sorted_nodes, nodes)
            IN IF r.raised THEN r ELSE SortOk(Reverse(r.order))

\* The depth-first sort under the interpreter's recursion limit.  frames is
\* the number of nested dfs() calls the interpreter can still hold when the
\* sort is entered (the recursion limit less the frames in use).  dfs() is
\* entered with one active call per node in temp_mark; a call nested deeper
\* than frames ends in RecursionError, except the call that finds its node
\* visited and returns at once, which still fits.
DfsLimitedInit == [visited |-> {}, temp_mark |-> {}, sorted_nodes |-> <<>>, raised |-> "none"]

RECURSIVE dfs_limited(_, _, _, _)
RECURSIVE DfsSuccsLimited(_, _, _, _, _)
dfs_limited(node, st, N, frames) ==
    IF st.raised # "none" THEN st
    ELSE IF Cardinality(st.temp_mark) + 1 > frames
            /\ (node \in st.temp_mark \/ node \notin st.visited)
    THEN [st EXCEPT !.raised = "RecursionError"]
    ELSE IF node \in st.temp_mark THEN [st EXCEPT !.raised = "Cycle"]
    ELSE IF node \in st.visited THEN st
    ELSE LET s1 == DfsSuccsLimited(N[node], 1,
                                   [st EXCEPT !.temp_mark = @ \cup {node}], N, frames)
         IN IF s1.raised # "none" THEN s1
            ELSE [s1 EXCEPT !.temp_mark = @ \ {node},
                            !.visited = @ \cup {node},
                            !.sorted_nodes = Append(@, node)]
DfsSuccsLimited(succs, k, st, N, frames) ==
    IF k > Len(succs) \/ st.raised # "none" THEN st
    ELSE DfsSuccsLimited(succs, k + 1, dfs_limited(succs[k], st, N, frames), N, frames)

\* for node in nodes: if len(node.pre_nodes) == 0: dfs(node)
RECURSIVE DfsRootsLimited(_, _, _, _, _, _)
DfsRootsLimited(nodes, k, st, P, N, frames) ==
    IF k > Len(nodes) \/ st.raised # "none" THEN st
    ELSE DfsRootsLimited(nodes, k + 1,
                         IF Len(P[nodes[k]]) = 0
                         THEN dfs_limited(nodes[k], st, N, frames) ELSE st, P, N, frames)

\* The outcome of the sort: the exception raised ("none" when it returned)
\* and the order.
topo_sort_forward_dfs_limited(nodes, P, N, frames) ==
    LET st == DfsRootsLimited(nodes, 1, DfsLimitedInit, P, N, frames)
    IN IF st.raised # "none" THEN [raised |-> st.raised, order |-> <<>>]
       ELSE IF Len(st.sorted_nodes) # Len(nodes) THEN [raised |-> "Cycle", order |-> <<>>]
       ELSE [raised |-> "none", order |-> Reverse(st.sorted_nodes)]

\* topo_sort_backward: dfs(node, visited, result) along pre_nodes, post-order.
RECURSIVE bdfs(_, _, _)
RECURSIVE BdfsPreds(_, _, _, _)
bdfs(node, st, P) ==
    IF node \in st.visited THEN st
    ELSE LET s1 == BdfsPreds(P[node], 1, [st EXCEPT !.visited = @ \cup {node}], P)
         IN [s1 EXCEPT !.result = Append(@, node)]
\* A traversal that follows only the first predecessor of each node.
BdfsPreds_first_only(preds, k, st, P) ==
    IF k > Len(preds) \/ k > 1 THEN st
    ELSE BdfsPreds(preds, k + 1, bdfs(preds[k], st, P), P)
BdfsPreds(preds, k, st, P) ==
    IF k > Len(preds) THEN st
    ELSE BdfsPreds(preds, k + 1, bdfs(preds[k], st, P), P)

\* The post-order itself, without the final reversal.
BackwardSortOf_post_order(node, P) == bdfs(node, [visited |-> {}, result |-> <<>>], P).result

\* backward_sorts[node] = result[::-1]
BackwardSortOf(node, P) == Reverse(bdfs(node, [visited |-> {}, result |-> <<>>], P).result)

topo_sort_backward(nodes, P) ==
    [v \in DOMAIN P |-> IF v \in Range(nodes) THEN BackwardSortOf(v, P) ELSE <<>>]

-----------------------------------------------------------------------------
(* Boundary validation and the constructors *)

\* [node for node in nodes if len(node.pre_nodes) == 0]
InputNodes(nodes, P) == SelectSeq(nodes, LAMBDA v : Len(P[v]) = 0)
\* [node for node in nodes if len(node.next_nodes) == 0]
OutputNodes(nodes, N) == SelectSeq(nodes, LAMBDA v : Len(N[v]) = 0)

\* A validation that looks at the outputs before the inputs.
CheckBoundary_outputs_first(nodes, P, N) ==
    LET ins == InputNodes(nodes, P)
        outs == OutputNodes(nodes, N)
    IN IF Len(outs) = 0 THEN Err("NoOutput")
       ELSE IF Len(outs) > 1 THEN ErrNames("MultipleOutputs", outs)
       ELSE IF Len(ins) = 0 THEN Err("NoInput")
       ELSE IF Len(ins) > 1 THEN ErrNames("MultipleInputs", ins)
       ELSE NoErr

\* A validation that wants the input and the output to be two nodes.
CheckBoundary_two_ends(nodes, P, N) ==
    LET ins == InputNodes(nodes, P)
        outs == OutputNodes(nodes, N)
    IN IF Len(ins) = 0 THEN Err("NoInput")
       ELSE IF Len(ins) > 1 THEN ErrNames("MultipleInputs", ins)
       ELSE IF Len(outs) = 0 THEN Err("NoOutput")
       ELSE IF Len(outs) > 1 THEN ErrNames("MultipleOutputs", outs)
       ELSE IF ins = outs THEN ErrNames("MultipleOutputs", outs)
       ELSE NoErr

\* The four boundary checks, in the order the code makes them; the error
\* names the offending nodes.
CheckBoundary(nodes, P, N) ==
    LET ins == InputNodes(nodes, P)
        outs == OutputNodes(nodes, N)
    IN IF Len(ins) = 0 THEN Err("NoInput")
       ELSE IF Len(ins) > 1 THEN ErrNames("MultipleInputs", ins)
       ELSE IF Len(outs) = 0 THEN Err("NoOutput")
       ELSE IF Len(outs) > 1 THEN ErrNames("MultipleOutputs", outs)
       ELSE NoErr

\* The sort the constructor selects; any other strategy is a ValueError.
SortBy(strategy, nodes, P, N) ==
    IF strategy = "dfs" THEN topo_sort_forward_dfs(nodes, P, N)
    ELSE topo_sort_forward_bfs(nodes, P, N)

KnownStrategy(strategy) == strategy \in {"dfs", "bfs"}

\* What a constructor leaves behind.
Built(e, P, N, order, uin, uout, bsorts) ==
    [err |-> e, pre |-> P, next |-> N, nodes |-> order,
     user_input |-> uin, user_output |-> uout, backward_sorts |-> bsorts]

NoSorts == [v \in Node |-> <<>>]

\* A constructor that validates the boundary before it sorts.
TModel_init_validate_first(nodes, strategy, mode, P, N) ==
    IF ~KnownStrategy(strategy)
    THEN Built(Err("UnknownStrategy"), P, N, <<>>, NoNode, NoNode, NoSorts)
    ELSE LET e == CheckBoundary(nodes, P, N)
             r == SortBy(strategy, nodes, P, N)
         IN IF e.type # "none"
            THEN Built(e, P, N, <<>>, NoNode, NoNode, NoSorts)
            ELSE IF r.raised
            THEN Built(Err("Cycle"), P, N, <<>>, NoNode, NoNode, NoSorts)
            ELSE Built(NoErr, P, N, r.order, NoNode, NoNode,
                       IF mode = "BACKWARD"
                       THEN topo_sort_backward(r.order, P) ELSE NoSorts)

\* A constructor that hands back the nodes with their lists exchanged.
TModel_init_exchanging(nodes, strategy, mode, P, N) ==
    IF ~KnownStrategy(strategy)
    THEN Built(Err("UnknownStrategy"), P, N, <<>>, NoNode, NoNode, NoSorts)
    ELSE LET r == SortBy(strategy, nodes, P, N)
         IN IF r.raised
            THEN Built(Err("Cycle"), P, N, <<>>, NoNode, NoNode, NoSorts)
            ELSE LET e == CheckBoundary(r.order, P, N)
                 IN IF e.type # "none"
                    THEN Built(e, P, N, <<>>, NoNode, NoNode, NoSorts)
                    ELSE Built(NoErr, N, P, r.order, NoNode, NoNode,
                               IF mode = "BACKWARD"
                               THEN topo_sort_backward(r.order, P) ELSE NoSorts)

\* TModel.__init__: sort first, then validate the sorted nodes, then (in
\* BACKWARD mode) compute every node's backward sort.
TModel_init(nodes, strategy, mode, P, N) ==
    IF ~KnownStrategy(strategy)
    THEN Built(Err("UnknownStrategy"), P, N, <<>>, NoNode, NoNode, NoSorts)
    ELSE LET r == SortBy(strategy, nodes, P, N)
         IN IF r.raised
            THEN Built(Err("Cycle"), P, N, <<>>, NoNode, NoNode, NoSorts)
            ELSE LET e == CheckBoundary(r.order, P, N)
                 IN IF e.type # "none"
                    THEN Built(e, P, N, <<>>, NoNode, NoNode, NoSorts)
                    ELSE Built(NoErr, P, N, r.order, NoNode, NoNode,
                               IF mode = "BACKWARD"
                               THEN topo_sort_backward(r.order, P) ELSE NoSorts)

\* A swap without the temporary: pre_nodes is overwritten before it is read.
reverse_dag_no_temp(user_nodes, P, N) ==
    LET e == CheckBoundary(user_nodes, P, N)
    IN IF e.type # "none"
       THEN [err |-> e, pre |-> P, next |-> N, user_input |-> NoNode, user_output |-> NoNode]
       ELSE [err |-> NoErr,
             pre |-> [v \in DOMAIN P |-> IF v \in Range(user_nodes) THEN N[v] ELSE P[v]],
             next |-> N,
             user_input |-> InputNodes(user_nodes, P)[1],
             user_output |-> OutputNodes(user_nodes, N)[1]]

\* A reversal that returns the boundary nodes of the reversed graph.
reverse_dag_pair_swapped(user_nodes, P, N) ==
    LET e == CheckBoundary(user_nodes, P, N)
    IN IF e.type # "none"
       THEN [err |-> e, pre |-> P, next |-> N, user_input |-> NoNode, user_output |-> NoNode]
       ELSE [err |-> NoErr,
             pre |-> [v \in DOMAIN P |-> IF v \in Range(user_nodes) THEN N[v] ELSE P[v]],
             next |-> [v \in DOMAIN P |-> IF v \in Range(user_nodes) THEN P[v] ELSE N[v]],
             user_input |-> OutputNodes(user_nodes, N)[1],
             user_output |-> InputNodes(user_nodes, P)[1]]

\* A reversal that swaps first and validates afterwards.
reverse_dag_swap_first(user_nodes, P, N) ==
    LET e == CheckBoundary(user_nodes, P, N)
        swapped_pre == [v \in DOMAIN P |-> IF v \in Range(user_nodes) THEN N[v] ELSE P[v]]
        swapped_next == [v \in DOMAIN P |-> IF v \in Range(user_nodes) THEN P[v] ELSE N[v]]
    IN IF e.type # "none"
       THEN [err |-> e, pre |-> swapped_pre, next |-> swapped_next,
             user_input |-> NoNode, user_output |-> NoNode]
       ELSE [err |-> NoErr, pre |-> swapped_pre, next |-> swapped_next,
             user_input |-> InputNodes(user_nodes, P)[1],
             user_output |-> OutputNodes(user_nodes, N)[1]]

\* reverse_dag: validate the user's graph, then swap pre_nodes and next_nodes
\* of every node.
reverse_dag(user_nodes, P, N) ==
    LET e == CheckBoundary(user_nodes, P, N)
    IN IF e.type # "none"
       THEN [err |-> e, pre |-> P, next |-> N, user_input |-> NoNode, user_output |-> NoNode]
       ELSE [err |-> NoErr,
             pre |-> [v \in DOMAIN P |-> IF v \in Range(user_nodes) THEN N[v] ELSE P[v]],
             next |-> [v \in DOMAIN P |-> IF v \in Range(user_nodes) THEN P[v] ELSE N[v]],
             user_input |-> InputNodes(user_nodes, P)[1],
             user_output |-> OutputNodes(user_nodes, N)[1]]

\* T2Model.__init__: reverse_dag, sort the reversed graph, assert that the
\* order starts at the user's output and ends at the user's input, compute
\* the backward sorts.
T2Model_init(user_nodes, strategy, P, N) ==
    LET rv == reverse_dag(user_nodes, P, N)
    IN IF rv.err.type # "none"
       THEN Built(rv.err, rv.pre, rv.next, <<>>, NoNode, NoNode, NoSorts)
       ELSE IF ~KnownStrategy(strategy)
       THEN Built(Err("UnknownStrategy"), rv.pre, rv.next, <<>>,
                  rv.user_input, rv.user_output, NoSorts)
       ELSE LET r == SortBy(strategy, user_nodes, rv.pre, rv.next)
            IN IF r.raised
               THEN Built(Err("Cycle"), rv.pre, rv.next, <<>>,
                          rv.user_input, rv.user_output, NoSorts)
               ELSE IF r.order[1] # rv.user_output \/ r.order[Len(r.order)] # rv.user_input
               THEN Built(Err("AssertionError"), rv.pre, rv.next, r.order,
                          rv.user_input, rv.user_output, NoSorts)
               ELSE Built(NoErr, rv.pre, rv.next, r.order, rv.user_input, rv.user_output,
                          topo_sort_backward(r.order, rv.pre))

ModelInit(k, nodes, strategy, mode, P, N) ==
    IF k = "T" THEN TModel_init(nodes, strategy, mode, P, N)
    ELSE T2Model_init(nodes, strategy, P, N)

-----------------------------------------------------------------------------
(* The toy node classes.  An operation returns the cache it leaves and the   *)
(* exception it raised ("none" when it returned).                            *)

Ret(c) == [cache |-> c, raised |-> "none"]
Raise(c, e) == [cache |-> c, raised |-> e]

\* An eviction callback that spares the source only.
IsInterior_sink_included(v, P, N) == Len(P[v]) > 0

\* if len(self.next_nodes) > 0 and len(self.pre_nodes) > 0
IsInterior(v, P, N) == Len(N[v]) > 0 /\ Len(P[v]) > 0

ForwardToyNode_forward(v, c, P) ==
    IF Len(P[v]) = 0
    THEN IF v \in c.bnds THEN Ret(c) ELSE Raise(c, "AssertionError")
    ELSE Ret([c EXCEPT !.cur_node = v, !.symbnds = @ \cup {v}, !.bnds = @ \cup {v}])

ForwardToyNode_clear_fwd_cache(v, c, P, N) ==
    IF IsInterior(v, P, N) /\ v \notin c.bnds THEN Raise(c, "KeyError")
    ELSE Ret([c EXCEPT !.bnds = IF IsInterior(v, P, N) THEN @ \ {v} ELSE @,
                       !.symbnds = @ \ {v}])

BackwardToyNode_forward(v, c, P) ==
    IF Len(P[v]) = 0
    THEN IF v \in c.bnds THEN Ret(c) ELSE Raise(c, "AssertionError")
    ELSE Ret([c EXCEPT !.cur_node = v, !.symbnds = @ \cup {v}])

BackwardToyNode_backward(v, c) ==
    IF c.cur_node = NoNode THEN Raise(c, "AssertionError")
    ELSE Ret([c EXCEPT !.symbnds = @ \cup {v}, !.bnds = @ \cup {c.cur_node}])

BackwardToyNode_clear_fwd_cache(v, c, P, N) ==
    IF ~IsInterior(v, P, N) THEN Ret(c)
    ELSE IF v \notin c.bnds THEN Raise(c, "KeyError")
    ELSE Ret([c EXCEPT !.bnds = @ \ {v}])

BackwardToyNode_clear_bwd_cache(v, c) ==
    IF v \notin c.symbnds THEN Raise(c, "KeyError")
    ELSE Ret([c EXCEPT !.symbnds = @ \ {v}])

Toy2Node_forward(v, c, P) ==
    IF Len(P[v]) = 0
    THEN Ret([c EXCEPT !.bnds = @ \cup {v}])
    ELSE Ret([c EXCEPT !.cur_node = v, !.rlxs = @ \cup {v}, !.bnds = @ \cup {v}])

\* del bnds[name] for an interior node (KeyError when absent), then
\* symbnds[name] and rlxs[name] are deleted where present.
Toy2Node_clear_fwd_cache(v, c, P, N) ==
    IF IsInterior(v, P, N) /\ v \notin c.bnds THEN Raise(c, "KeyError")
    ELSE Ret([c EXCEPT !.bnds = IF IsInterior(v, P, N) THEN @ \ {v} ELSE @,
                       !.symbnds = @ \ {v},
                       !.rlxs = @ \ {v}])

Toy2Node_clear_bwd_cache(v, c) == Raise(c, "RuntimeError")

\* The node class the tests pair with each model and mode.
NodeClass(k, mode) ==
    IF k = "T2" THEN "Toy2Node"
    ELSE IF mode = "FORWARD" THEN "ForwardToyNode" ELSE "BackwardToyNode"

node_forward(cls, v, c, P) ==
    IF cls = "Toy2Node" THEN Toy2Node_forward(v, c, P)
    ELSE IF cls = "ForwardToyNode" THEN ForwardToyNode_forward(v, c, P)
    ELSE BackwardToyNode_forward(v, c, P)

node_backward(cls, v, c) ==
    IF cls = "BackwardToyNode" THEN BackwardToyNode_backward(v, c)
    ELSE Raise(c, "RuntimeError")

node_clear_fwd_cache(cls, v, c, P, N) ==
    IF cls = "Toy2Node" THEN Toy2Node_clear_fwd_cache(v, c, P, N)
    ELSE IF cls = "ForwardToyNode" THEN ForwardToyNode_clear_fwd_cache(v, c, P, N)
    ELSE BackwardToyNode_clear_fwd_cache(v, c, P, N)

node_clear_bwd_cache(cls, v, c) ==
    IF cls = "BackwardToyNode" THEN BackwardToyNode_clear_bwd_cache(v, c)
    ELSE Toy2Node_clear_bwd_cache(v, c)

-----------------------------------------------------------------------------
(* The eviction routines.  st = [counter, cache, ops, raised] threads the    *)
(* reference-count table, the shared cache, the log of node operations and   *)
(* the exception raised so far through the loop.                             *)

Op(o, v) == [op |-> o, node |-> v]

EvSt(cnt, c, o) == [counter |-> cnt, cache |-> c, ops |-> o, raised |-> "none"]

\* An eviction that leaves the expired entry in the table.
DelKey_kept(cnt, v) == cnt

\* del cache_counter[node]
DelKey(cnt, v) == [w \in (DOMAIN cnt) \ {v} |-> cnt[w]]

\* An eviction that fires one decrement early.
Expired_at_one(count) == count <= 1

\* if cache_counter[node] <= 0
Expired(count) == count <= 0

\* An eviction that swallows the callback's exception and carries on.
Decrement_swallowed(st, v, opname, r) ==
    LET c1 == st.counter[v] - 1
    IN IF ~Expired(c1) THEN [st EXCEPT !.counter[v] = c1]
       ELSE [st EXCEPT !.counter = DelKey(@, v), !.ops = Append(@, Op(opname, v)),
                       !.cache = r.cache]

\* An eviction that takes two from the count.
Decrement_by_two(st, v, opname, r) ==
    LET c1 == st.counter[v] - 2
    IN IF ~Expired(c1) THEN [st EXCEPT !.counter[v] = c1]
       ELSE IF r.raised # "none"
       THEN [st EXCEPT !.counter[v] = c1, !.ops = Append(@, Op(opname, v)),
                       !.cache = r.cache, !.raised = r.raised]
       ELSE [st EXCEPT !.counter = DelKey(@, v), !.ops = Append(@, Op(opname, v)),
                       !.cache = r.cache]

\* cache_counter[node] -= 1; if it is <= 0: the callback, then del.
\* r is the callback's result on the cache.
Decrement(st, v, opname, r) ==
    LET c1 == st.counter[v] - 1
    IN IF ~Expired(c1) THEN [st EXCEPT !.counter[v] = c1]
       ELSE IF r.raised # "none"
       THEN [st EXCEPT !.counter[v] = c1, !.ops = Append(@, Op(opname, v)),
                       !.cache = r.cache, !.raised = r.raised]
       ELSE [st EXCEPT !.counter = DelKey(@, v), !.ops = Append(@, Op(opname, v)),
                       !.cache = r.cache]

\* clear_fwd_cache(cache_counter, nodes): order is the order in which
\* set(nodes) is iterated; a node without an entry is a KeyError.
RECURSIVE clear_fwd_cache(_, _, _, _, _, _)
clear_fwd_cache(st, order, k, cls, P, N) ==
    IF k > Len(order) \/ st.raised # "none" THEN st
    ELSE LET v == order[k]
         IN IF v \notin DOMAIN st.counter
            THEN [st EXCEPT !.raised = "CounterKeyError"]
            ELSE clear_fwd_cache(
                   Decrement(st, v, "clear_fwd_cache",
                             node_clear_fwd_cache(cls, v, st.cache, P, N)),
                   order, k + 1, cls, P, N)

\* clear_bwd_cache(cache_counter, nodes): nodes in list order; a node without
\* an entry is skipped.
RECURSIVE clear_bwd_cache(_, _, _, _)
clear_bwd_cache(st, nodes, k, cls) ==
    IF k > Len(nodes) \/ st.raised # "none" THEN st
    ELSE LET v == nodes[k]
         IN IF v \notin DOMAIN st.counter
            THEN clear_bwd_cache(st, nodes, k + 1, cls)
            ELSE clear_bwd_cache(
                   Decrement(st, v, "clear_bwd_cache",
                             node_clear_bwd_cache(cls, v, st.cache)),
                   nodes, k + 1, cls)

\* clear_bwd_cache_t2(cache_counter, nodes): as clear_fwd_cache, with the
\* clear_bwd_cache callback.
RECURSIVE clear_bwd_cache_t2(_, _, _, _)
clear_bwd_cache_t2(st, order, k, cls) ==
    IF k > Len(order) \/ st.raised # "none" THEN st
    ELSE LET v == order[k]
         IN IF v \notin DOMAIN st.counter
            THEN [st EXCEPT !.raised = "CounterKeyError"]
            ELSE clear_bwd_cache_t2(
                   Decrement(st, v, "clear_bwd_cache",
                             node_clear_bwd_cache(cls, v, st.cache)),
                   order, k + 1, cls)

\* The eviction run() calls after a node's step: clear_fwd_cache in TModel,
\* clear_bwd_cache_t2 in T2Model.
RunEvict(k, st, order, cls, P, N) ==
    IF k = "T" THEN clear_fwd_cache(st, order, 1, cls, P, N)
    ELSE clear_bwd_cache_t2(st, order, 1, cls)

-----------------------------------------------------------------------------
(* The caller wires the graph *)

Edges == {e \in Node \X Node : e[2] \in Range(next_nodes[e[1]])}

RECURSIVE SumLen(_, _)
SumLen(f, k) == IF k = 0 THEN 0 ELSE Len(f[k]) + SumLen(f, k - 1)

\* List entries beyond one per edge and side.
NumDup == SumLen(pre_nodes, NumNodes) + SumLen(next_nodes, NumNodes) - 2 * Cardinality(Edges)

EmptyCounter == [w \in {} |-> 0]

\* Every node was created with the one shared Cache and Arguments instance.
NoOwn == [node |-> NoNode, what |-> "none", equal |-> TRUE]
NoLists == [v \in Node |-> <<>>]

Init ==
    /\ n \in 1..NumNodes
    /\ pre_nodes = NoLists
    /\ next_nodes = NoLists
    /\ pre0 = NoLists
    /\ next0 = NoLists
    /\ pc = "wiring"
    /\ kind = "none"
    /\ sort_strategy = "none"
    /\ prop_mode = "NA"
    /\ clear_cache_during_running = FALSE
    /\ err = NoErr
    /\ nodes_sorted = <<>>
    /\ user_input = NoNode
    /\ user_output = NoNode
    /\ all_backward_sorts = NoSorts
    /\ cache = EmptyCache
    /\ cache_counter = EmptyCounter
    /\ i = 0
    /\ bwd_counter = EmptyCounter
    /\ j = 0
    /\ ops = <<>>
    /\ node_class = "none"
    /\ own = NoOwn

\* u.next_nodes.append(v); v.pre_nodes.append(u)
AddEdge(u, v) ==
    /\ pc = "wiring"
    /\ <<u, v>> \notin Edges
    /\ Cardinality(Edges) < MaxEdges
    /\ NumDup = 0
    /\ next_nodes' = [next_nodes EXCEPT ![u] = Append(@, v)]
    /\ pre_nodes' = [pre_nodes EXCEPT ![v] = Append(@, u)]
    /\ UNCHANGED <<n, pre0, next0, pc, kind, sort_strategy, prop_mode,
                   clear_cache_during_running, err, nodes_sorted, user_input, user_output,
                   all_backward_sorts, cache, cache_counter, i, bwd_counter, j, ops,
                   node_class, own>>

\* The successor u.next_nodes[k] is listed once more (as in x * x).
DupNext(u, k) ==
    /\ pc = "wiring"
    /\ k \in 1..Len(next_nodes[u])
    /\ NumDup < MaxDup
    /\ next_nodes' = [next_nodes EXCEPT ![u] = DupAt(@, k)]
    /\ UNCHANGED <<n, pre_nodes, pre0, next0, pc, kind, sort_strategy, prop_mode,
                   clear_cache_during_running, err, nodes_sorted, user_input, user_output,
                   all_backward_sorts, cache, cache_counter, i, bwd_counter, j, ops,
                   node_class, own>>

\* The predecessor v.pre_nodes[k] is listed once more.
DupPre(v, k) ==
    /\ pc = "wiring"
    /\ k \in 1..Len(pre_nodes[v])
    /\ NumDup < MaxDup
    /\ pre_nodes' = [pre_nodes EXCEPT ![v] = DupAt(@, k)]
    /\ UNCHANGED <<n, next_nodes, pre0, next0, pc, kind, sort_strategy, prop_mode,
                   clear_cache_during_running, err, nodes_sorted, user_input, user_output,
                   all_backward_sorts, cache, cache_counter, i, bwd_counter, j, ops,
                   node_class, own>>

-----------------------------------------------------------------------------
(* The caller calls a forward sort directly on the nodes it wired *)

SortCall(strategy) ==
    /\ pc = "wiring"
    /\ LET r == SortBy(strategy, Nodes(n), pre_nodes, next_nodes)
       IN IF r.raised
          THEN /\ pc' = "sort_raised"
               /\ err' = Err("Cycle")
               /\ nodes_sorted' = nodes_sorted
          ELSE /\ pc' = "sorted"
               /\ err' = err
               /\ nodes_sorted' = r.order
    /\ sort_strategy' = strategy
    /\ pre0' = pre_nodes
    /\ next0' = next_nodes
    /\ UNCHANGED <<graphVars, kind, prop_mode, clear_cache_during_running, user_input,
                   user_output, all_backward_sorts, cache, cache_counter, i, bwd_counter,
                   j, ops, node_class, own>>

\* The caller calls a forward sort with frames nested calls left under the
\* interpreter's recursion limit.  The wide-first sort does not recurse.
SortCallLimited(strategy, frames) ==
    /\ pc = "wiring"
    /\ LET b == topo_sort_forward_bfs(Nodes(n), pre_nodes, next_nodes)
           r == IF strategy = "dfs"
                THEN topo_sort_forward_dfs_limited(Nodes(n), pre_nodes, next_nodes, frames)
                ELSE [raised |-> IF b.raised THEN "Cycle" ELSE "none", order |-> b.order]
       IN IF r.raised # "none"
          THEN /\ pc' = "sort_raised"
               /\ err' = Err(r.raised)
               /\ nodes_sorted' = nodes_sorted
          ELSE /\ pc' = "sorted"
               /\ err' = err
               /\ nodes_sorted' = r.order
    /\ sort_strategy' = strategy
    /\ pre0' = pre_nodes
    /\ next0' = next_nodes
    /\ UNCHANGED <<graphVars, kind, prop_mode, clear_cache_during_running, user_input,
                   user_output, all_backward_sorts, cache, cache_counter, i, bwd_counter,
                   j, ops, node_class, own>>

\* A further specification: the caller wires the nodes and calls a forward
\* sort directly, with one to MaxFrames nested calls left.
NextRecursionLimit ==
    \/ \E u \in 1..n, v \in 1..n : AddEdge(u, v)
    \/ \E u \in 1..n, k \in 1..(MaxEdges + MaxDup) : DupNext(u, k)
    \/ \E v \in 1..n, k \in 1..(MaxEdges + MaxDup) : DupPre(v, k)
    \/ \E s \in {"bfs", "dfs"}, f \in 1..MaxFrames : SortCallLimited(s, f)

SpecRecursionLimit == Init /\ [][NextRecursionLimit]_vars

-----------------------------------------------------------------------------
(* The caller calls reverse_dag directly on the nodes it wired, once and then
   once more on the same nodes *)

ReverseCall ==
    /\ pc \in {"wiring", "reversed"}
    /\ LET r == reverse_dag(Nodes(n), pre_nodes, next_nodes)
       IN /\ pre_nodes' = r.pre
          /\ next_nodes' = r.next
          /\ user_input' = r.user_input
          /\ user_output' = r.user_output
          /\ err' = r.err
          /\ pc' = IF r.err.type # "none" THEN "reverse_raised"
                   ELSE IF pc = "wiring" THEN "reversed" ELSE "reversed_twice"
    /\ pre0' = IF pc = "wiring" THEN pre_nodes ELSE pre0
    /\ next0' = IF pc = "wiring" THEN next_nodes ELSE next0
    /\ UNCHANGED <<n, kind, sort_strategy, prop_mode, clear_cache_during_running,
                   nodes_sorted, all_backward_sorts, cache, cache_counter, i, bwd_counter,
                   j, ops, node_class, own>>

-----------------------------------------------------------------------------
(* Construction *)

Kinds == {"T", "T2"}
Strategies == {"bfs", "dfs", "invalid"}
ModesOf(k) == IF k = "T" THEN {"FORWARD", "BACKWARD"} ELSE {"NA"}

\* The caller seeds the input node's bounds before a TModel runs; a T2Model
\* initialises its own.
SeededCache(k, P) ==
    IF k = "T" THEN [EmptyCache EXCEPT !.bnds = {v \in 1..n : Len(P[v]) = 0}]
    ELSE EmptyCache

\* The constructor raises (prop_mode is read only after every check passed).
ConstructFails(k, strategy) ==
    /\ pc = "wiring"
    /\ LET r == ModelInit(k, Nodes(n), strategy, "FORWARD", pre_nodes, next_nodes)
       IN /\ r.err.type # "none"
          /\ err' = r.err
          /\ pre_nodes' = r.pre
          /\ next_nodes' = r.next
    /\ pc' = "failed"
    /\ pre0' = pre_nodes
    /\ next0' = next_nodes
    /\ kind' = k
    /\ sort_strategy' = strategy
    /\ UNCHANGED <<n, prop_mode, clear_cache_during_running, nodes_sorted, user_input, user_output,
                   all_backward_sorts, cache, cache_counter, i, bwd_counter, j, ops,
                   node_class, own>>

\* The constructor returns a model.
ConstructOk(k, strategy, mode, clear) ==
    /\ pc = "wiring"
    /\ LET r == ModelInit(k, Nodes(n), strategy, mode, pre_nodes, next_nodes)
       IN /\ r.err.type = "none"
          /\ pre_nodes' = r.pre
          /\ next_nodes' = r.next
          /\ nodes_sorted' = r.nodes
          /\ user_input' = r.user_input
          /\ user_output' = r.user_output
          /\ all_backward_sorts' = r.backward_sorts
    /\ pc' = "built"
    /\ pre0' = pre_nodes
    /\ next0' = next_nodes
    /\ kind' = k
    /\ sort_strategy' = strategy
    /\ prop_mode' = mode
    /\ clear_cache_during_running' = clear
    /\ cache' = SeededCache(k, pre_nodes)
    /\ node_class' = NodeClass(k, mode)
    /\ UNCHANGED <<n, err, cache_counter, i, bwd_counter, j, ops, own>>

\* A TModel over nodes of either toy class, whatever the mode, with the input
\* node's bounds seeded or not: the constructor checks neither.
ToyClasses == {"ForwardToyNode", "BackwardToyNode"}

ConstructAnyNodes(strategy, mode, clear, cls, seeded) ==
    /\ pc = "wiring"
    /\ ~(seeded /\ cls = NodeClass("T", mode))
    /\ LET r == ModelInit("T", Nodes(n), strategy, mode, pre_nodes, next_nodes)
       IN /\ r.err.type = "none"
          /\ nodes_sorted' = r.nodes
          /\ all_backward_sorts' = r.backward_sorts
    /\ pc' = "built"
    /\ pre0' = pre_nodes
    /\ next0' = next_nodes
    /\ kind' = "T"
    /\ sort_strategy' = strategy
    /\ prop_mode' = mode
    /\ clear_cache_during_running' = clear
    /\ cache' = IF seeded THEN SeededCache("T", pre_nodes) ELSE EmptyCache
    /\ node_class' = cls
    /\ UNCHANGED <<graphVars, err, user_input, user_output, cache_counter, i, bwd_counter,
                   j, ops, own>>

\* node.cache == self._cache, node.argument == self._arguments: == on the
\* dataclasses compares the fields, so two instances with equal contents
\* are equal.
DataclassEq(same_instance, equal_contents) == same_instance \/ equal_contents

\* for node in nodes[1:]: assert node.cache == ...; assert node.argument == ...
\* when node v holds an instance of its own and the others share one.
SharedCheck(m, v, equal_contents) ==
    \A w \in 2..m : DataclassEq((w = v) = (1 = v), equal_contents)

\* A constructor over nodes of which v was created with a Cache (or an
\* Arguments) instance of its own, its contents equal to the others' or not;
\* the graph passes every check that comes before the shared-instance one.
ConstructUnshared(k, strategy, mode, v, what, equal) ==
    /\ pc = "wiring"
    /\ n >= 2
    /\ LET r == ModelInit(k, Nodes(n), strategy, mode, pre_nodes, next_nodes)
       IN /\ r.err.type = "none"
          /\ pre_nodes' = r.pre
          /\ next_nodes' = r.next
          /\ IF SharedCheck(n, v, equal)
             THEN /\ pc' = "built_unshared"
                  /\ err' = err
                  /\ user_input' = r.user_input
                  /\ user_output' = r.user_output
                  /\ nodes_sorted' = r.nodes
                  /\ all_backward_sorts' = r.backward_sorts
                  /\ prop_mode' = mode
                  /\ node_class' = NodeClass(k, mode)
             ELSE /\ pc' = "failed"
                  /\ err' = Err("AssertionError")
                  /\ UNCHANGED <<user_input, user_output, nodes_sorted,
                                 all_backward_sorts, prop_mode, node_class>>
    /\ own' = [node |-> v, what |-> what, equal |-> equal]
    /\ pre0' = pre_nodes
    /\ next0' = next_nodes
    /\ kind' = k
    /\ sort_strategy' = strategy
    /\ UNCHANGED <<n, clear_cache_during_running, cache, cache_counter, i, bwd_counter,
                   j, ops>>

-----------------------------------------------------------------------------
(* run(), one node operation (with the eviction that follows it) at a time *)

Cls == node_class
Last == Len(nodes_sorted)

\* A table that counts one consumer too many for every node.
InitCounter_one_more(order, N) == [v \in Range(order) |-> Len(N[v]) + 1]

\* cache_counter = {node: len(node.next_nodes) for node in self._nodes}
InitCounter(order, N) == [v \in Range(order) |-> Len(N[v])]

\* A closure table that counts one predecessor too many for every node.
InitBwdCounter_one_more(backward_sort, P) == [v \in Range(backward_sort) |-> Len(P[v]) + 1]

\* cache_counter = {node: len(node.pre_nodes) for node in backward_sort}
InitBwdCounter(backward_sort, P) == [v \in Range(backward_sort) |-> Len(P[v])]

\* A run that goes from forward() straight to the eviction.
AfterForward_no_backsub(k) ==
    IF kind = "T" /\ k = 1 THEN (IF Last = 1 THEN "final" ELSE "forward")
    ELSE "evict"

\* Where run() goes after forward() of the node at index k returned.
AfterForward(k) ==
    IF kind = "T" /\ k = 1 THEN (IF Last = 1 THEN "final" ELSE "forward")
    ELSE IF kind = "T" /\ prop_mode = "BACKWARD" THEN "backsub"
    ELSE "evict"

RunStart ==
    /\ pc = "built"
    /\ pc' = "forward"
    /\ cache_counter' = InitCounter(nodes_sorted, next_nodes)
    /\ i' = 1
    /\ UNCHANGED <<graphVars, modelVars, pre0, next0, err, cache, bwd_counter, j, ops>>

\* node.forward()
Forward ==
    /\ pc = "forward"
    /\ LET v == nodes_sorted[i]
           r == node_forward(Cls, v, cache, pre_nodes)
       IN /\ ops' = Append(ops, Op("forward", v))
          /\ cache' = r.cache
          /\ IF r.raised # "none"
             THEN /\ pc' = "raised"
                  /\ err' = ErrNames(r.raised, <<v>>)
                  /\ i' = i
             ELSE /\ pc' = AfterForward(i)
                  /\ err' = err
                  /\ i' = IF kind = "T" /\ i = 1 /\ Last > 1 THEN 2 ELSE i
    /\ j' = 0
    /\ UNCHANGED <<graphVars, modelVars, pre0, next0, cache_counter, bwd_counter>>

\* A back-substitution that starts at the second member of the backward sort.
BacksubStart_from_second ==
    /\ pc = "backsub"
    /\ j = 0
    /\ LET backward_sort == all_backward_sorts[nodes_sorted[i]]
       IN IF Len(backward_sort) = 1
          THEN /\ pc' = "evict"
               /\ UNCHANGED <<bwd_counter, j>>
          ELSE /\ pc' = "backsub"
               /\ bwd_counter' = InitBwdCounter(backward_sort, pre_nodes)
               /\ j' = 2
    /\ UNCHANGED <<graphVars, modelVars, pre0, next0, err, cache, cache_counter, i, ops>>

\* backsub(node) up to its first backward(): a backward sort of one node
\* returns at once, otherwise the closure's table is built.
BacksubStart ==
    /\ pc = "backsub"
    /\ j = 0
    /\ LET backward_sort == all_backward_sorts[nodes_sorted[i]]
       IN IF Len(backward_sort) = 1
          THEN /\ pc' = "evict"
               /\ UNCHANGED <<bwd_counter, j>>
          ELSE /\ pc' = "backsub"
               /\ bwd_counter' = InitBwdCounter(backward_sort, pre_nodes)
               /\ j' = 1
    /\ UNCHANGED <<graphVars, modelVars, pre0, next0, err, cache, cache_counter, i, ops>>

\* node.backward() of the j-th node of the backward sort, then
\* clear_bwd_cache for its next_nodes (not after the first), and after the
\* last node clear_bwd_cache for that node.
Backward ==
    /\ pc = "backsub"
    /\ j >= 1
    /\ LET backward_sort == all_backward_sorts[nodes_sorted[i]]
           w == backward_sort[j]
           r == node_backward(Cls, w, cache)
           s0 == [EvSt(bwd_counter, r.cache, Append(ops, Op("backward", w)))
                    EXCEPT !.raised = r.raised]
           s1 == IF j > 1 /\ clear_cache_during_running
                 THEN clear_bwd_cache(s0, next_nodes[w], 1, Cls) ELSE s0
           s2 == IF j = Len(backward_sort) /\ clear_cache_during_running
                 THEN clear_bwd_cache(s1, <<w>>, 1, Cls) ELSE s1
       IN /\ ops' = s2.ops
          /\ cache' = s2.cache
          /\ bwd_counter' = s2.counter
          /\ IF s2.raised # "none"
             THEN /\ pc' = "raised"
                  /\ err' = Err(s2.raised)
                  /\ j' = j
             ELSE /\ err' = err
                  /\ pc' = IF j = Len(backward_sort) THEN "evict" ELSE "backsub"
                  /\ j' = IF j = Len(backward_sort) THEN 0 ELSE j + 1
    /\ UNCHANGED <<graphVars, modelVars, pre0, next0, cache_counter, i>>

\* if self.clear_cache_during_running: clear_fwd_cache(cache_counter, node.pre_nodes)
EvictStep ==
    /\ pc = "evict"
    /\ \E order \in Orders(Range(pre_nodes[nodes_sorted[i]])) :
         LET s0 == EvSt(cache_counter, cache, ops)
             s1 == IF clear_cache_during_running
                   THEN RunEvict(kind, s0, order, Cls, pre_nodes, next_nodes) ELSE s0
         IN /\ ops' = s1.ops
            /\ cache' = s1.cache
            /\ cache_counter' = s1.counter
            /\ IF s1.raised # "none"
               THEN /\ pc' = "raised"
                    /\ err' = Err(s1.raised)
                    /\ i' = i
               ELSE /\ err' = err
                    /\ pc' = IF i < Last THEN "forward" ELSE "final"
                    /\ i' = IF i < Last THEN i + 1 ELSE i
    /\ UNCHANGED <<graphVars, modelVars, pre0, next0, bwd_counter, j>>

\* A post-loop eviction that ignores clear_cache_during_running.
FinalEvict_unconditional ==
    /\ pc = "final"
    /\ LET s0 == EvSt(cache_counter, cache, ops)
           s1 == RunEvict(kind, s0, <<nodes_sorted[Last]>>, Cls, pre_nodes, next_nodes)
       IN /\ ops' = s1.ops
          /\ cache' = s1.cache
          /\ cache_counter' = s1.counter
          /\ IF s1.raised # "none"
             THEN /\ pc' = "raised"
                  /\ err' = Err(s1.raised)
             ELSE /\ pc' = "done"
                  /\ err' = err
    /\ UNCHANGED <<graphVars, modelVars, pre0, next0, i, bwd_counter, j>>

\* After the loop: clear_fwd_cache(cache_counter, [node]) for the last node
\* of the order, then run() returns.
FinalEvict ==
    /\ pc = "final"
    /\ LET s0 == EvSt(cache_counter, cache, ops)
           s1 == IF clear_cache_during_running
                 THEN RunEvict(kind, s0, <<nodes_sorted[Last]>>, Cls, pre_nodes, next_nodes)
                 ELSE s0
       IN /\ ops' = s1.ops
          /\ cache' = s1.cache
          /\ cache_counter' = s1.counter
          /\ IF s1.raised # "none"
             THEN /\ pc' = "raised"
                  /\ err' = Err(s1.raised)
             ELSE /\ pc' = "done"
                  /\ err' = err
    /\ UNCHANGED <<graphVars, modelVars, pre0, next0, i, bwd_counter, j>>

-----------------------------------------------------------------------------
Next ==
    \/ \E u \in 1..n, v \in 1..n : AddEdge(u, v)
    \/ \E u \in 1..n, k \in 1..(MaxEdges + MaxDup) : DupNext(u, k)
    \/ \E v \in 1..n, k \in 1..(MaxEdges + MaxDup) : DupPre(v, k)
    \/ \E s \in {"bfs", "dfs"} : SortCall(s)
    \/ ReverseCall
    \/ \E k \in Kinds, s \in Strategies : ConstructFails(k, s)
    \/ \E k \in Kinds, s \in Strategies, c \in BOOLEAN : \E m \in ModesOf(k) :
          ConstructOk(k, s, m, c)
    \/ RunStart
    \/ Forward
    \/ BacksubStart
    \/ Backward
    \/ EvictStep
    \/ FinalEvict

Spec == Init /\ [][Next]_vars

\* The same, with callers that pair node classes and modes freely, forget
\* to seed the input bounds, or give a node instances of its own.
NextAnyNodes ==
    \/ Next
    \/ \E s \in {"bfs", "dfs"}, m \in ModesOf("T"), c \in BOOLEAN :
          \E cls \in ToyClasses, seeded \in BOOLEAN : ConstructAnyNodes(s, m, c, cls, seeded)
    \/ \E k \in Kinds, s \in {"bfs", "dfs"}, v \in 1..n :
          \E m \in ModesOf(k), what \in {"cache", "argument"}, equal \in BOOLEAN :
             ConstructUnshared(k, s, m, v, what, equal)

SpecAnyNodes == Init /\ [][NextAnyNodes]_vars

-----------------------------------------------------------------------------
(* Vocabulary of the properties *)

\* The index of v in the order.
Pos(order, v) == CHOOSE k \in 1..Len(order) : order[k] = v

\* Every predecessor of every node comes strictly before the node.
IsTopological(order, P) ==
    \A v \in Range(order) : \A p \in Range(P[v]) :
        /\ p \in Range(order)
        /\ Pos(order, p) < Pos(order, v)

\* The order holds each of the m nodes exactly once.
IsPermutation(order, m) == Len(order) = m /\ Range(order) = 1..m

\* A further specification: the caller wires WideNodes nodes with up to
\* MaxWideEdges edges, none listed twice, and constructs a model.  Five
\* nodes are the fewest on which a graph has topological orders that
\* differ in how they interleave the levels.
WideLists == [v \in 1..WideNodes |-> <<>>]

InitWide ==
    /\ n = WideNodes
    /\ pre_nodes = WideLists
    /\ next_nodes = WideLists
    /\ pre0 = WideLists
    /\ next0 = WideLists
    /\ pc = "wiring"
    /\ kind = "none"
    /\ sort_strategy = "none"
    /\ prop_mode = "NA"
    /\ clear_cache_during_running = FALSE
    /\ err = NoErr
    /\ nodes_sorted = <<>>
    /\ user_input = NoNode
    /\ user_output = NoNode
    /\ all_backward_sorts = NoSorts
    /\ cache = EmptyCache
    /\ cache_counter = EmptyCounter
    /\ i = 0
    /\ bwd_counter = EmptyCounter
    /\ j = 0
    /\ ops = <<>>
    /\ node_class = "none"
    /\ own = NoOwn

\* u.next_nodes.append(v); v.pre_nodes.append(u)
AddEdgeWide(u, v) ==
    /\ pc = "wiring"
    /\ u # v
    /\ v \notin Range(next_nodes[u])
    /\ SumLen(next_nodes, n) < MaxWideEdges
    /\ next_nodes' = [next_nodes EXCEPT ![u] = Append(@, v)]
    /\ pre_nodes' = [pre_nodes EXCEPT ![v] = Append(@, u)]
    /\ UNCHANGED <<n, pre0, next0, pc, kind, sort_strategy, prop_mode,
                   clear_cache_during_running, err, nodes_sorted, user_input, user_output,
                   all_backward_sorts, cache, cache_counter, i, bwd_counter, j, ops,
                   node_class, own>>

NextWide ==
    \/ \E u \in 1..n, v \in 1..n : AddEdgeWide(u, v)
    \/ \E k \in Kinds, s \in {"bfs", "dfs"} : ConstructFails(k, s)
    \/ \E k \in Kinds, s \in {"bfs", "dfs"} : ConstructOk(k, s, IF k = "T" THEN "FORWARD" ELSE "NA", FALSE)

SpecWide == InitWide /\ [][NextWide]_vars

\* A further specification: after a T2Model was constructed the caller
\* constructs a second T2Model from the same node objects.  The variables
\* then describe the second model; pre0 and next0 stay the caller's wiring.
ConstructSecond(strategy, clear) ==
    /\ pc = "built"
    /\ kind = "T2"
    /\ LET r == T2Model_init(Nodes(n), strategy, pre_nodes, next_nodes)
       IN /\ pre_nodes' = r.pre
          /\ next_nodes' = r.next
          /\ err' = r.err
          /\ IF r.err.type = "none"
             THEN /\ pc' = "built_again"
                  /\ nodes_sorted' = r.nodes
                  /\ user_input' = r.user_input
                  /\ user_output' = r.user_output
                  /\ all_backward_sorts' = r.backward_sorts
                  /\ clear_cache_during_running' = clear
             ELSE /\ pc' = "failed_again"
                  /\ UNCHANGED <<nodes_sorted, user_input, user_output, all_backward_sorts,
                                 clear_cache_during_running>>
    /\ sort_strategy' = strategy
    /\ UNCHANGED <<n, pre0, next0, kind, prop_mode, cache, cache_counter, i, bwd_counter,
                   j, ops, node_class, own>>

NextSecondModel ==
    \/ Next
    \/ \E s \in Strategies, c \in BOOLEAN : ConstructSecond(s, c)

SpecSecondModel == Init /\ [][NextSecondModel]_vars

\* A second specification of the wiring: the caller lists one more successor
\* twice when the graph already has MaxDup duplicate entries.
DupNextAgain(u, k) ==
    /\ pc = "wiring"
    /\ k \in 1..Len(next_nodes[u])
    /\ NumDup = MaxDup
    /\ next_nodes' = [next_nodes EXCEPT ![u] = DupAt(@, k)]
    /\ UNCHANGED <<n, pre_nodes, pre0, next0, pc, kind, sort_strategy, prop_mode,
                   clear_cache_during_running, err, nodes_sorted, user_input, user_output,
                   all_backward_sorts, cache, cache_counter, i, bwd_counter, j, ops,
                   node_class, own>>

NextMoreDups ==
    \/ Next
    \/ \E u \in 1..n, k \in 1..(MaxEdges + MaxDup) : DupNextAgain(u, k)

SpecMoreDups == Init /\ [][NextMoreDups]_vars

\* The nodes reachable from the set S in one or more steps along N.
RECURSIVE ReachFrom(_, _, _)
ReachFrom(S, N, k) ==
    LET step == UNION {Range(N[v]) : v \in S}
    IN IF k = 0 THEN step ELSE step \cup ReachFrom(step, N, k - 1)

HasCycle(N) == \E v \in 1..n : v \in ReachFrom({v}, N, NumNodes)

\* The graph as the caller wired it, before any constructor touched it.
Sources0 == {v \in 1..n : Len(pre0[v]) = 0}
Sinks0 == {v \in 1..n : Len(next0[v]) = 0}

\* The boundary nodes of the graph the model runs on.
Source == CHOOSE v \in 1..n : Len(pre_nodes[v]) = 0
Sink == CHOOSE v \in 1..n : Len(next_nodes[v]) = 0

Attempted == kind \in Kinds
Constructed == Attempted /\ pc # "failed"
InRun == pc \in {"forward", "backsub", "evict", "final", "done", "raised"}

Invoked(o, v) == \E k \in 1..Len(ops) : ops[k] = Op(o, v)

ForwardCompleted(v) ==
    \E k \in 1..Len(ops) : ops[k] = Op("forward", v) /\ ~(pc = "raised" /\ k = Len(ops))

\* The sink's bounds entry has been written: by its forward() with
\* ForwardToyNode, by the first backward() of its back-substitution with
\* BackwardToyNode (whose forward() only writes the symbolic bounds).
SinkWritten ==
    IF prop_mode = "FORWARD" THEN ForwardCompleted(Sink)
    ELSE \E k1 \in 1..Len(ops), k2 \in 1..Len(ops) :
            k1 < k2 /\ ops[k1] = Op("forward", Sink) /\ ops[k2].op = "backward"

-----------------------------------------------------------------------------
(* The properties *)

\* C1: whenever topo_sort_forward_bfs or topo_sort_forward_dfs returns an
\* order (duplicate list entries included), every predecessor of every node
\* comes strictly before the node in that order.
C1_TopologicalValidity ==
    pc = "sorted" => IsTopological(nodes_sorted, pre_nodes)

\* C2: whenever construction of a TModel or T2Model succeeded, the graph the
\* caller wired has exactly one node without predecessors, exactly one node
\* without successors, and no directed cycle.
C2_AcceptedGraphIsDag ==
    Constructed =>
        /\ Cardinality(Sources0) = 1
        /\ Cardinality(Sinks0) = 1
        /\ ~HasCycle(next0)

\* C3: after run() returned with clear_cache_during_running = True, no node
\* that has both predecessors and successors still has a bnds entry.
C3_InteriorReclaimed ==
    (pc = "done" /\ kind = "T" /\ clear_cache_during_running) =>
        \A v \in 1..n : IsInterior(v, pre_nodes, next_nodes) => v \notin cache.bnds

\* C4 as stated: at every point of a TModel run the source's bnds entry is
\* present, and the sink's is present from the completion of the sink's
\* forward() on.
C4_SinkPresentSinceForward ==
    (kind = "T" /\ InRun) =>
        /\ Source \in cache.bnds
        /\ ForwardCompleted(Sink) => Sink \in cache.bnds

\* C4 amended: at every point of a TModel run the source's bnds entry is
\* present, and the sink's entry is present from the moment it is written
\* (the sink's forward() in FORWARD mode, the first backward() of the sink's
\* back-substitution in BACKWARD mode) until run() returns, and after it.
C4_BoundaryKept ==
    (kind = "T" /\ InRun) =>
        /\ Source \in cache.bnds
        /\ SinkWritten => Sink \in cache.bnds
        /\ pc = "done" => Sink \in cache.bnds

\* A run with eviction returned, the eviction callback was invoked on the
\* source and on the sink, and both entries are there.
C4_Witness ==
    /\ pc = "done" /\ kind = "T" /\ clear_cache_during_running
    /\ Source # Sink
    /\ Invoked("clear_fwd_cache", Source)
    /\ Invoked("clear_fwd_cache", Sink)
    /\ {Source, Sink} \subseteq cache.bnds

\* C5: a forward sort either raises the cycle error or returns an order
\* holding every node of the input exactly once; the same holds for the
\* order a constructed model keeps.
C5_TotalCoverage ==
    /\ pc = "sorted" => IsPermutation(nodes_sorted, n)
    /\ pc = "sort_raised" => err.type = "Cycle"
    /\ Constructed => IsPermutation(nodes_sorted, n)

\* A sort returned on three nodes wired with three edges and a duplicate entry.
C5_Witness ==
    /\ pc = "sorted" /\ n = 3
    /\ Cardinality(Edges) = 3 /\ NumDup = 1
    /\ IsPermutation(nodes_sorted, 3)

\* C6: constructing a TModel with 'bfs' or 'dfs' over a graph that contains
\* a directed cycle (mutual, longer, self-loop, or downstream of a source)
\* fails with the cycle error.
C6_CycleRejected ==
    (Attempted /\ kind = "T" /\ sort_strategy \in {"bfs", "dfs"} /\ HasCycle(next0)) =>
        (pc = "failed" /\ err.type = "Cycle")

\* C7: constructing a TModel or T2Model with 'bfs' or 'dfs' over an acyclic
\* graph fails with MultipleInputs naming exactly the nodes without
\* predecessors when there are several, and with MultipleOutputs naming
\* exactly the nodes without successors when there is one node without
\* predecessors and several without successors.
C7_BoundaryErrors ==
    (Attempted /\ sort_strategy \in {"bfs", "dfs"} /\ ~HasCycle(next0)) =>
        /\ Cardinality(Sources0) > 1 =>
              /\ pc = "failed" /\ err.type = "MultipleInputs"
              /\ Range(err.names) = Sources0
              /\ Len(err.names) = Cardinality(Sources0)
        /\ (Cardinality(Sources0) = 1 /\ Cardinality(Sinks0) > 1) =>
              /\ pc = "failed" /\ err.type = "MultipleOutputs"
              /\ Range(err.names) = Sinks0
              /\ Len(err.names) = Cardinality(Sinks0)

\* A fan-out 1 -> {2, 3} was refused with MultipleOutputs naming 2 and 3.
C7_Witness ==
    /\ pc = "failed" /\ n = 3 /\ ~HasCycle(next0)
    /\ Sources0 = {1} /\ Sinks0 = {2, 3}
    /\ err.type = "MultipleOutputs" /\ Range(err.names) = {2, 3}

\* C8 as stated: constructing a TModel or T2Model with 'bfs' or 'dfs' over
\* a graph in which no node has zero predecessors fails with NoInput.
C8_PureCycleNoInput ==
    (Attempted /\ sort_strategy \in {"bfs", "dfs"} /\ Sources0 = {}) =>
        (pc = "failed" /\ err.type = "NoInput")

\* C8 amended: over a graph in which no node has zero predecessors,
\* constructing a T2Model fails with NoInput (reverse_dag validates before
\* anything is sorted) and constructing a TModel fails with the cycle error
\* (the sort runs before the validation), under 'bfs' and 'dfs' alike.
C8_PureCycleRefused ==
    (Attempted /\ sort_strategy \in {"bfs", "dfs"} /\ Sources0 = {}) =>
        /\ pc = "failed"
        /\ kind = "T2" => err.type = "NoInput"
        /\ kind = "T" => err.type = "Cycle"

\* A TModel over the three-node ring was refused with the cycle error.
C8_Witness ==
    /\ pc = "failed" /\ kind = "T" /\ sort_strategy \in {"bfs", "dfs"}
    /\ n = 3 /\ Sources0 = {} /\ Sinks0 = {}
    /\ Cardinality(Edges) = 3 /\ \A v \in 1..n : v \notin Range(next0[v])
    /\ err.type = "Cycle"

\* C9: a failed construction has invoked no node operation and left every
\* node's predecessor and successor lists as they were before the call.
C9_FailureLeavesNoState ==
    pc = "failed" => (ops = <<>> /\ pre_nodes = pre0 /\ next_nodes = next0)

\* C10: run() on a constructed model never fails on a missing
\* reference-count entry (the engine's own KeyError in clear_fwd_cache).
C10_NoEngineErrorInRun ==
    ~(pc = "raised" /\ err.type = "CounterKeyError")

\* What the node operation o does on the cache as it is now.
OpResult(o) ==
    IF o.op = "forward" THEN node_forward(Cls, o.node, cache, pre_nodes)
    ELSE IF o.op = "backward" THEN node_backward(Cls, o.node, cache)
    ELSE IF o.op = "clear_fwd_cache"
    THEN node_clear_fwd_cache(Cls, o.node, cache, pre_nodes, next_nodes)
    ELSE node_clear_bwd_cache(Cls, o.node, cache)

LastOp == ops[Len(ops)]

\* C11: when a node operation raises during run(), run() ends with that very
\* exception, the failing operation is the last one invoked (it left the
\* cache as it is, so it fails again on it) and it was invoked once, not
\* retried; and run() never returns normally after invoking an operation
\* that always raises (backward() of a ForwardToyNode, clear_bwd_cache() of
\* a Toy2Node).
C11_FailurePropagates ==
    /\ (pc = "raised" /\ err.type # "CounterKeyError") =>
          /\ Len(ops) > 0
          /\ OpResult(LastOp).raised = err.type
          /\ Len(ops) > 1 => ops[Len(ops) - 1] # LastOp
    /\ pc = "done" =>
          \A k \in 1..Len(ops) :
             /\ ops[k].op = "backward" => node_class = "BackwardToyNode"
             /\ ops[k].op = "clear_bwd_cache" => node_class # "Toy2Node"

\* In BACKWARD mode over ForwardToyNodes, the first backward() raised after
\* two forward() calls and ended the run.
C11_Witness ==
    /\ pc = "raised" /\ err.type = "RuntimeError"
    /\ node_class = "ForwardToyNode" /\ prop_mode = "BACKWARD"
    /\ Len(ops) = 3 /\ LastOp.op = "backward"
    /\ ops[1].op = "forward" /\ ops[2].op = "forward"

\* C12: reverse_dag applied twice to the nodes of a graph with exactly one
\* source and one sink succeeds both times and leaves every node's
\* predecessor and successor list exactly as it was (elements, order,
\* multiplicity).
C12_ReverseInvolution ==
    /\ pc = "reversed_twice" => (pre_nodes = pre0 /\ next_nodes = next0)
    /\ pc = "reverse_raised" => ~(Cardinality(Sources0) = 1 /\ Cardinality(Sinks0) = 1)

\* Three nodes, three edges, one listed twice, reversed twice.
C12_Witness ==
    /\ pc = "reversed_twice" /\ n = 3
    /\ Cardinality(Edges) = 3 /\ NumDup = 1
    /\ pre_nodes = pre0 /\ next_nodes = next0

\* C13: after reverse_dag accepted a graph it returned (original source,
\* original sink), every node's predecessor list is its former successor
\* list and vice versa, the former sink has no predecessors and the former
\* source no successors.
C13_ReverseSwaps ==
    pc = "reversed" =>
        /\ Sources0 = {user_input}
        /\ Sinks0 = {user_output}
        /\ \A v \in 1..n : pre_nodes[v] = next0[v] /\ next_nodes[v] = pre0[v]
        /\ Len(pre_nodes[user_output]) = 0
        /\ Len(next_nodes[user_input]) = 0

\* The chain 1 -> 2 -> 3 was reversed and (1, 3) returned.
C13_Witness ==
    /\ pc = "reversed" /\ n = 3
    /\ next0 = <<<<2>>, <<3>>, <<>>>>
    /\ user_input = 1 /\ user_output = 3
    /\ next_nodes = <<<<>>, <<1>>, <<2>>>>

\* C14: when reverse_dag rejects a graph it raised one of the four boundary
\* errors and every node's predecessor and successor list is unchanged.
C14_RejectLeavesLists ==
    pc = "reverse_raised" =>
        /\ err.type \in {"NoInput", "MultipleInputs", "NoOutput", "MultipleOutputs"}
        /\ pre_nodes = pre0
        /\ next_nodes = next0

\* The fan-in {1, 2} -> 3 was rejected with MultipleInputs and left as wired.
C14_Witness ==
    /\ pc = "reverse_raised" /\ n = 3
    /\ err.type = "MultipleInputs" /\ Range(err.names) = {1, 2}
    /\ pre_nodes[3] # <<>> /\ Range(pre_nodes[3]) = {1, 2}
    /\ pre_nodes = pre0 /\ next_nodes = next0

\* The index in ops of the first forward() of node v, 0 when there is none.
FwdIdx(v) ==
    IF Invoked("forward", v)
    THEN CHOOSE k \in 1..Len(ops) :
            /\ ops[k] = Op("forward", v)
            /\ \A k2 \in 1..(k - 1) : ops[k2] # Op("forward", v)
    ELSE 0

\* The edges of the graph as the caller wired it, from either list.
Edges0 ==
    {e \in (1..n) \X (1..n) : e[2] \in Range(next0[e[1]]) \/ e[1] \in Range(pre0[e[2]])}

\* C15: a completed T2Model.run() has invoked forward() exactly once on
\* every node and backward() on none, and for every edge U -> V of the
\* graph as the caller wired it, V.forward() came before U.forward().
C15_ReverseTraversal ==
    (kind = "T2" /\ pc = "done") =>
        /\ \A v \in 1..n : Cardinality({k \in 1..Len(ops) : ops[k] = Op("forward", v)}) = 1
        /\ \A k \in 1..Len(ops) : ops[k].op # "backward"
        /\ \A e \in Edges0 : FwdIdx(e[2]) < FwdIdx(e[1])

\* The constructor computed a backward sort for every node.
HasClosures == Constructed /\ pc # "wiring" /\ (kind = "T2" \/ prop_mode = "BACKWARD")

\* N and every node reachable from N along pre_nodes of the graph the model
\* runs on.
Ancestors(v) == {v} \cup ReachFrom({v}, pre_nodes, NumNodes)

\* C16: for every node N of an accepted graph, N's backward sort lists N and
\* every node reachable from N along predecessor edges, each exactly once,
\* and nothing else; the source's backward sort is the source alone.
C16_ClosureMembers ==
    HasClosures =>
        /\ \A v \in 1..n :
              /\ Range(all_backward_sorts[v]) = Ancestors(v)
              /\ Len(all_backward_sorts[v]) = Cardinality(Ancestors(v))
        /\ \A v \in 1..n : Len(pre_nodes[v]) = 0 => all_backward_sorts[v] = <<v>>

\* A diamond-like graph: the sink has two distinct predecessors, one of them
\* listed twice, and its backward sort has all three nodes.
C16_Witness ==
    /\ HasClosures /\ kind = "T" /\ n = 3
    /\ Cardinality(Range(pre_nodes[Sink])) = 2
    /\ Len(pre_nodes[Sink]) = 3
    /\ Len(all_backward_sorts[Sink]) = 3
    /\ all_backward_sorts[Source] = <<Source>>

\* C17 as stated: every backward sort is predecessor-before-successor, each
\* member after all of its own predecessors, the source first and N last.
C17_PredecessorFirst ==
    HasClosures =>
        \A v \in 1..n :
           LET order == all_backward_sorts[v]
           IN /\ order[Len(order)] = v
              /\ Len(pre_nodes[order[1]]) = 0
              /\ \A m \in Range(order) : \A p \in Range(pre_nodes[m]) :
                    Pos(order, p) < Pos(order, m)

\* C17, amended: every backward sort is successor-before-predecessor. N
\* comes first and every other member comes after one of its successors;
\* on an acyclic graph each member comes before all of its own
\* predecessors, so the source comes last.
C17_SuccessorFirst ==
    HasClosures =>
        \A v \in 1..n :
           LET order == all_backward_sorts[v]
           IN /\ order[1] = v
              /\ \A k \in 2..Len(order) :
                    \E k2 \in 1..(k - 1) : order[k] \in Range(pre_nodes[order[k2]])
              /\ ~HasCycle(pre_nodes) =>
                    /\ \A m \in Range(order) : \A p \in Range(pre_nodes[m]) :
                          Pos(order, m) < Pos(order, p)
                    /\ Len(pre_nodes[order[Len(order)]]) = 0

\* The sink of an acyclic three-node graph with two paths to the source:
\* its backward sort is sink, middle, source.
C17_Witness ==
    /\ HasClosures /\ n = 3 /\ ~HasCycle(pre_nodes)
    /\ Cardinality(Range(pre_nodes[Sink])) = 2
    /\ Len(all_backward_sorts[Sink]) = 3
    /\ all_backward_sorts[Sink][1] = Sink
    /\ all_backward_sorts[Sink][3] = Source

\* Some edge is listed more than once in a predecessor or successor list.
DuplicateEdge ==
    \E v \in 1..n :
       \/ Len(pre_nodes[v]) > Cardinality(Range(pre_nodes[v]))
       \/ Len(next_nodes[v]) > Cardinality(Range(next_nodes[v]))

\* The positions in ops at which callback o ran on node v.
Calls(o, v) == {k \in 1..Len(ops) : ops[k] = Op(o, v)}

\* C18: when an edge is listed more than once, a run with eviction enabled
\* invokes clear_fwd_cache of each node at most once, and clear_bwd_cache
\* of each node at most once per back-substitution (between two forward()
\* calls), at most once per run in T2Model.
C18_NoDoubleEviction ==
    (InRun /\ DuplicateEdge /\ clear_cache_during_running) =>
        \A v \in 1..n :
           /\ Cardinality(Calls("clear_fwd_cache", v)) <= 1
           /\ \A k1 \in Calls("clear_bwd_cache", v), k2 \in Calls("clear_bwd_cache", v) :
                 k1 < k2 => \E k \in (k1 + 1)..(k2 - 1) : ops[k].op = "forward"
           /\ kind = "T2" => Cardinality(Calls("clear_bwd_cache", v)) <= 1

\* A completed BACKWARD run with eviction over a graph with an edge u -> v
\* listed twice in both lists (u.next_nodes holds v twice and v.pre_nodes
\* holds u twice): clear_fwd_cache ran at most once on u, and a
\* back-substitution that met v twice in u.next_nodes evicted it once.
C18_Witness ==
    /\ pc = "done" /\ kind = "T" /\ prop_mode = "BACKWARD" /\ n = 3
    /\ clear_cache_during_running
    /\ \E u, v \in 1..n :
          /\ Len(SelectSeq(next_nodes[u], LAMBDA w : w = v)) = 2
          /\ Len(SelectSeq(pre_nodes[v], LAMBDA w : w = u)) = 2
          /\ Calls("clear_bwd_cache", v) # {}
          /\ Cardinality(Calls("clear_fwd_cache", u)) <= 1

\* The graph is the linear chain 1 -> 2 -> ... -> n, every edge listed once
\* in both lists, so that the nodes are passed in source-to-sink order.
IsChain ==
    \A v \in 1..n :
       /\ next_nodes[v] = (IF v < n THEN <<v + 1>> ELSE <<>>)
       /\ pre_nodes[v] = (IF v > 1 THEN <<v - 1>> ELSE <<>>)

\* C19: for a linear chain of any length passed in source-to-sink order,
\* the sort that was called, 'bfs' or 'dfs', returned, and returned exactly
\* the input order.
C19_ChainKeepsInputOrder ==
    (pc \in {"sorted", "sort_raised"} /\ IsChain) =>
        /\ pc = "sorted"
        /\ nodes_sorted = Nodes(n)

\* With at least as many nested calls left as there are nodes the limited
\* sort is the depth-first sort.
LimitedAgreesWhenDeepEnough ==
    pc = "wiring" =>
        LET d == topo_sort_forward_dfs(Nodes(n), pre_nodes, next_nodes)
            l == topo_sort_forward_dfs_limited(Nodes(n), pre_nodes, next_nodes, n + 1)
        IN /\ d.raised = (l.raised # "none")
           /\ d.order = l.order
           /\ l.raised # "RecursionError"

\* C20: when some node holds a Cache or Arguments instance of its own (a
\* different object than the other nodes', whatever its contents),
\* construction fails.
C20_IdentityRequired ==
    own.node # NoNode => pc = "failed"

\* The callbacks that evict cache entries.
EvictionOps == {"clear_fwd_cache", "clear_bwd_cache"}

\* C21: with clear_cache_during_running False no step of run() invokes an
\* eviction callback and no step removes an entry from the cache, so every
\* entry written during the run is still there when run() returns.
C21_NothingEvictedWhenDisabled ==
    [][(pc \in {"built", "forward", "backsub", "evict", "final"}
          /\ ~clear_cache_during_running) =>
          /\ \A k \in 1..Len(ops') : ops'[k].op \notin EvictionOps
          /\ cache.bnds \subseteq cache'.bnds
          /\ cache.symbnds \subseteq cache'.symbnds
          /\ cache.rlxs \subseteq cache'.rlxs]_vars

\* A completed BACKWARD run without eviction over three nodes: the interior
\* node's bounds and symbolic bounds are still in the cache.
C21_Witness ==
    /\ pc = "done" /\ ~clear_cache_during_running /\ n = 3
    /\ kind = "T" /\ prop_mode = "BACKWARD"
    /\ \E v \in 1..n : /\ IsInterior(v, pre_nodes, next_nodes)
                      /\ v \in cache.bnds /\ v \in cache.symbnds
    /\ \A k \in 1..Len(ops) : ops[k].op \notin EvictionOps

\* forward() of node v was invoked and returned before position k of ops.
ForwardDoneBefore(v, k) ==
    \E f \in 1..(k - 1) : ops[f] = Op("forward", v)

\* The back-substitution that follows forward() of node w finished before
\* position k of ops: every member of w's backward sort had its backward()
\* between that forward() and k, before any other forward().
BacksubDoneBefore(w, k) ==
    \/ Len(all_backward_sorts[w]) = 1
    \/ \E f \in 1..(k - 1) :
          /\ ops[f] = Op("forward", w)
          /\ \E last \in (f + 1)..(k - 1) :
                /\ last - f >= Len(all_backward_sorts[w])
                /\ \A m \in (f + 1)..last : ops[m].op # "forward"
                /\ \A q \in 1..Len(all_backward_sorts[w]) :
                      \E m \in (f + 1)..last : ops[m] = Op("backward", all_backward_sorts[w][q])

\* C22: in a TModel run with eviction enabled, clear_fwd_cache of a node is
\* invoked only after forward() of the node and of each of its successors
\* returned and, in BACKWARD mode, after each successor's back-substitution
\* finished.
C22_EvictedAfterLastUse ==
    (kind = "T" /\ InRun /\ clear_cache_during_running) =>
        \A k \in 1..Len(ops) :
           ops[k].op = "clear_fwd_cache" =>
              LET v == ops[k].node
              IN /\ ForwardDoneBefore(v, k)
                 /\ \A w \in Range(next_nodes[v]) :
                       /\ ForwardDoneBefore(w, k)
                       /\ prop_mode = "BACKWARD" => BacksubDoneBefore(w, k)

\* backward() of node v was invoked before position k of ops in the
\* back-substitution position k belongs to (no forward() in between).
BackwardDoneInBacksub(v, k) ==
    \E b \in 1..(k - 1) :
       /\ ops[b] = Op("backward", v)
       /\ \A m \in b..k : ops[m].op # "forward"

\* C23: in a back-substitution with eviction enabled, clear_bwd_cache of a
\* node is invoked only after backward() of that node and of each of its
\* predecessors returned in the same back-substitution.
C23_BwdEvictedAfterLastUse ==
    (kind = "T" /\ InRun /\ clear_cache_during_running) =>
        \A k \in 1..Len(ops) :
           ops[k].op = "clear_bwd_cache" =>
              /\ BackwardDoneInBacksub(ops[k].node, k)
              /\ \A p \in Range(pre_nodes[ops[k].node]) : BackwardDoneInBacksub(p, k)

\* The nodes on which forward() was invoked, in the order of the calls.
RECURSIVE ForwardCalls(_)
ForwardCalls(k) ==
    IF k = 0 THEN <<>>
    ELSE IF ops[k].op = "forward" THEN Append(ForwardCalls(k - 1), ops[k].node)
    ELSE ForwardCalls(k - 1)

\* The node whose forward() is the last one before position k of ops.
StepNode(k) ==
    LET f == CHOOSE f \in 1..(k - 1) :
                /\ ops[f].op = "forward"
                /\ \A m \in (f + 1)..(k - 1) : ops[m].op # "forward"
    IN ops[f].node

\* C24: TModel.run() invokes forward() on the nodes in the sorted order,
\* once each when it completes; in BACKWARD mode the back-substitution of
\* every node but the first starts right after the node's forward()
\* returned and has finished before any clear_fwd_cache of that step and
\* before the next forward().
C24_StepOrder ==
    (kind = "T" /\ InRun) =>
        /\ ForwardCalls(Len(ops)) = SubSeq(nodes_sorted, 1, Len(ForwardCalls(Len(ops))))
        /\ pc = "done" => ForwardCalls(Len(ops)) = nodes_sorted
        /\ prop_mode = "BACKWARD" =>
              \A k \in 2..Len(ops) :
                 /\ (ops[k - 1].op = "forward" /\ ops[k - 1].node # nodes_sorted[1]) =>
                       ops[k] = Op("backward", ops[k - 1].node)
                 /\ (ops[k].op \in {"forward", "clear_fwd_cache"}
                       /\ StepNode(k) # nodes_sorted[1]) =>
                       BacksubDoneBefore(StepNode(k), k)

\* A completed BACKWARD run with eviction over three nodes.
C24_Witness ==
    /\ kind = "T" /\ pc = "done" /\ prop_mode = "BACKWARD" /\ n = 3
    /\ clear_cache_during_running
    /\ ForwardCalls(Len(ops)) = nodes_sorted
    /\ \E k \in 1..Len(ops) : ops[k].op = "clear_fwd_cache" /\ StepNode(k) = nodes_sorted[2]
    /\ Len(all_backward_sorts[nodes_sorted[3]]) = 3

\* The nodes on which backward() was invoked after position f of ops and
\* before the next forward(), in the order of the calls.
RECURSIVE BackwardCallsAfter(_)
BackwardCallsAfter(f) ==
    IF f >= Len(ops) \/ ops[f + 1].op = "forward" THEN <<>>
    ELSE IF ops[f + 1].op = "backward"
    THEN <<ops[f + 1].node>> \o BackwardCallsAfter(f + 1)
    ELSE BackwardCallsAfter(f + 1)

\* The step that began with the forward() at position f is over.
StepOver(f) ==
    \/ \E m \in (f + 1)..Len(ops) : ops[m].op \in {"forward", "clear_fwd_cache"}
    \/ pc \in {"forward", "evict", "final", "done"}

\* The backward() calls run() owes to node v: none for the first node of
\* the order and for a backward sort of one node, else the backward sort.
BacksubOf(v) ==
    IF v = nodes_sorted[1] \/ Len(all_backward_sorts[v]) = 1 THEN <<>>
    ELSE all_backward_sorts[v]

\* C25: in a BACKWARD run the backward() calls that follow a node's
\* forward() are exactly the members of the node's backward sort, once each
\* and in the stored order; there are none for the source, whose backward
\* sort has one member.
C25_BacksubFollowsClosure ==
    (kind = "T" /\ InRun /\ prop_mode = "BACKWARD") =>
        \A f \in 1..Len(ops) :
           ops[f].op = "forward" =>
              LET calls == BackwardCallsAfter(f)
                  owed == BacksubOf(ops[f].node)
              IN /\ Len(calls) <= Len(owed)
                 /\ calls = SubSeq(owed, 1, Len(calls))
                 /\ StepOver(f) => calls = owed
                 /\ Len(pre_nodes[ops[f].node]) = 0 => owed = <<>>

\* A completed BACKWARD run over three nodes in which the last node's
\* back-substitution called backward() on all three.
C25_Witness ==
    /\ kind = "T" /\ pc = "done" /\ prop_mode = "BACKWARD" /\ n = 3
    /\ \E f \in 1..Len(ops) :
          /\ ops[f] = Op("forward", nodes_sorted[3])
          /\ Len(BackwardCallsAfter(f)) = 3
          /\ BackwardCallsAfter(f) = all_backward_sorts[nodes_sorted[3]]
    /\ BackwardCallsAfter(1) = <<>>

\* C26: wherever run() is about to hand a node that is not in the
\* reference-count table to an eviction routine, the routine skips it: it
\* raises nothing, invokes no callback and leaves the table as it is.
C26_AbsentNodeSkipped ==
    (InRun /\ clear_cache_during_running) =>
        /\ pc \in {"evict", "final"} =>
              LET st == EvSt(cache_counter, cache, ops)
                  batch == IF pc = "evict" THEN Range(pre_nodes[nodes_sorted[i]])
                           ELSE {nodes_sorted[Last]}
              IN \A v \in batch \ DOMAIN cache_counter :
                    RunEvict(kind, st, <<v>>, Cls, pre_nodes, next_nodes) = st
        /\ (pc = "backsub" /\ j > 1) =>
              LET st == EvSt(bwd_counter, cache, ops)
                  batch == Range(next_nodes[all_backward_sorts[nodes_sorted[i]][j]])
              IN \A v \in batch \ DOMAIN bwd_counter :
                    clear_bwd_cache(st, <<v>>, 1, Cls) = st

\* What an eviction routine must do with node v of table cnt, given that
\* it did r: with the count after the decrement at zero or below the
\* node's callback opname is invoked and, once it has returned, the node is
\* removed from the table; with a positive count the entry is kept with the
\* new count and no callback is invoked.
EvictsExactlyAtZero(cnt, v, opname, r) ==
    IF cnt[v] - 1 <= 0
    THEN /\ r.ops = Append(ops, Op(opname, v))
         /\ r.raised = "none" => r.counter = DelKey(cnt, v)
    ELSE /\ r.ops = ops
         /\ r.raised = "none"
         /\ r.cache = cache
         /\ r.counter = [cnt EXCEPT ![v] = cnt[v] - 1]

\* C27: at every point of a run where an eviction routine is about to be
\* called, on every node of the table the routine invokes the node's
\* eviction callback exactly when the count after the decrement is zero or
\* below, and then removes the node; otherwise the entry stays.
C27_CallbackExactlyAtZero ==
    (InRun /\ clear_cache_during_running) =>
        /\ pc \in {"evict", "final"} =>
              \A v \in DOMAIN cache_counter :
                 EvictsExactlyAtZero(cache_counter, v,
                    IF kind = "T" THEN "clear_fwd_cache" ELSE "clear_bwd_cache",
                    RunEvict(kind, EvSt(cache_counter, cache, ops), <<v>>, Cls,
                             pre_nodes, next_nodes))
        /\ (pc = "backsub" /\ j >= 1) =>
              \A v \in DOMAIN bwd_counter :
                 EvictsExactlyAtZero(bwd_counter, v, "clear_bwd_cache",
                    clear_bwd_cache(EvSt(bwd_counter, cache, ops), <<v>>, 1, Cls))

\* run() is about to evict the predecessors of the last node: one of them
\* has a count of one and will be evicted, another node of the table has a
\* count of two and would be kept.
C27_Witness ==
    /\ InRun /\ clear_cache_during_running /\ kind = "T" /\ pc = "evict" /\ n = 3
    /\ \E v \in Range(pre_nodes[nodes_sorted[i]]) \cap DOMAIN cache_counter :
          cache_counter[v] = 1
    /\ \E u \in DOMAIN cache_counter : cache_counter[u] = 2

\* C28: a completed run with eviction enabled has invoked the sink's
\* eviction callback exactly once, after forward() of every node, and as
\* the last operation of the run.
C28_SinkEvictedLast ==
    (pc = "done" /\ clear_cache_during_running) =>
        LET ev == IF kind = "T" THEN "clear_fwd_cache" ELSE "clear_bwd_cache"
        IN /\ LastOp = Op(ev, Sink)
           /\ Cardinality(Calls(ev, Sink)) = 1
           /\ \A v \in 1..n : ForwardDoneBefore(v, Len(ops))

\* C29: whenever a graph was validated and sorted by a constructor, the
\* sorted order starts at the node without predecessors and ends at the
\* node without successors, and T2Model's assertions on the first and the
\* last node do not fail.
C29_OrderEndsAtBoundary ==
    /\ (Constructed /\ pc # "wiring") =>
          /\ Len(pre_nodes[nodes_sorted[1]]) = 0
          /\ Len(next_nodes[nodes_sorted[Len(nodes_sorted)]]) = 0
          /\ kind = "T2" => /\ nodes_sorted[1] = user_output
                            /\ nodes_sorted[Len(nodes_sorted)] = user_input
    /\ ~(pc = "failed" /\ kind = "T2" /\ err.type = "AssertionError" /\ own.node = NoNode)

\* C30: a forward sort, TModel's constructor (sorting, ancestor closures)
\* and run() of either model leave every node's predecessor and successor
\* list as it was; the lists of a constructed T2Model are the caller's
\* lists exchanged once, by the constructor's reverse_dag, and stay so
\* through run().
C30_EdgesArePreserved ==
    /\ pc \in {"sorted", "sort_raised"} => (pre_nodes = pre0 /\ next_nodes = next0)
    /\ kind = "T" => (pre_nodes = pre0 /\ next_nodes = next0)
    /\ (kind = "T2" /\ Constructed) => (pre_nodes = next0 /\ next_nodes = pre0)

\* A completed BACKWARD run with eviction over three nodes and a duplicate
\* entry: the lists are the caller's.
C30_Witness ==
    /\ kind = "T" /\ pc = "done" /\ prop_mode = "BACKWARD" /\ n = 3
    /\ clear_cache_during_running /\ DuplicateEdge
    /\ Cardinality(Edges) = 3
    /\ pre_nodes = pre0 /\ next_nodes = next0

\* C31: for every constructed T2Model, a second one built from the same
\* node objects included, user_input is the source and user_output the sink
\* of the graph as the caller wired it, and the first sorted node is that
\* sink.
C31_BoundaryOfOriginalGraph ==
    (kind = "T2" /\ pc \in {"built", "built_again"}) =>
        /\ Sources0 = {user_input}
        /\ Sinks0 = {user_output}
        /\ nodes_sorted[1] = user_output

\* The successor of v that comes last in the sorted order.
LastSuccessor(v) ==
    CHOOSE w \in Range(next_nodes[v]) :
       \A u \in Range(next_nodes[v]) : Pos(nodes_sorted, u) <= Pos(nodes_sorted, w)

\* Position k of ops lies in the step of node w: after w's forward() and
\* before the next forward().
InStepOf(w, k) ==
    \E f \in 1..(k - 1) :
       /\ ops[f] = Op("forward", w)
       /\ \A m \in (f + 1)..k : ops[m].op # "forward"

\* The step of node w is over: the next forward() was invoked or is about
\* to be, or the loop of run() has ended.
StepEnded(w) ==
    \E f \in 1..Len(ops) :
       /\ ops[f] = Op("forward", w)
       /\ \/ \E m \in (f + 1)..Len(ops) : ops[m].op = "forward"
          \/ pc \in {"forward", "final", "done"}

\* C32: in a TModel run with eviction enabled on a graph without duplicate
\* list entries, clear_fwd_cache of a node with successors is invoked only in
\* the step of its last successor in the sorted order, after that
\* successor's forward() and back-substitution, and it has been invoked,
\* once, when that step is over.
C32_EvictedAtLastSuccessor ==
    (kind = "T" /\ InRun /\ clear_cache_during_running /\ ~DuplicateEdge) =>
        \A v \in 1..n :
           Len(next_nodes[v]) > 0 =>
              /\ \A k \in Calls("clear_fwd_cache", v) :
                    /\ InStepOf(LastSuccessor(v), k)
                    /\ prop_mode = "BACKWARD" => BacksubDoneBefore(LastSuccessor(v), k)
              /\ Cardinality(Calls("clear_fwd_cache", v)) <= 1
              /\ StepEnded(LastSuccessor(v)) => Cardinality(Calls("clear_fwd_cache", v)) = 1

\* A completed BACKWARD run with eviction over 1 -> 2 -> 3 with the extra
\* edge 1 -> 3: the source was evicted in the step of node 3, not of node 2.
C32_Witness ==
    /\ kind = "T" /\ pc = "done" /\ clear_cache_during_running /\ ~DuplicateEdge
    /\ prop_mode = "BACKWARD" /\ n = 3 /\ Cardinality(Edges) = 3
    /\ Cardinality(Range(next_nodes[Source])) = 2
    /\ \E k \in Calls("clear_fwd_cache", Source) :
          InStepOf(Sink, k) /\ ~InStepOf(nodes_sorted[2], k)

\* The nodes on which clear_bwd_cache was invoked after position f of ops
\* and before the next forward(), in the order of the calls.
RECURSIVE BwdEvictionsAfter(_)
BwdEvictionsAfter(f) ==
    IF f >= Len(ops) \/ ops[f + 1].op = "forward" THEN <<>>
    ELSE IF ops[f + 1].op = "clear_bwd_cache"
    THEN <<ops[f + 1].node>> \o BwdEvictionsAfter(f + 1)
    ELSE BwdEvictionsAfter(f + 1)

\* C33: in a BACKWARD run with eviction enabled on a graph without
\* duplicate list entries, when the back-substitution of a node has
\* returned, clear_bwd_cache was invoked in it exactly once on every member
\* of the node's backward sort and on no other node, last on the source,
\* and the back-substitution's reference-count table is empty.
C33_BacksubEvictsClosure ==
    (kind = "T" /\ InRun /\ prop_mode = "BACKWARD" /\ clear_cache_during_running
       /\ ~DuplicateEdge) =>
        /\ \A f \in 1..Len(ops) :
              (ops[f].op = "forward" /\ StepOver(f) /\ BacksubOf(ops[f].node) # <<>>) =>
                 LET evicted == BwdEvictionsAfter(f)
                     owed == BacksubOf(ops[f].node)
                 IN /\ Len(evicted) = Len(owed)
                    /\ Range(evicted) = Range(owed)
                    /\ evicted[Len(evicted)] = Source
        /\ (pc = "evict" /\ BacksubOf(nodes_sorted[i]) # <<>>) => DOMAIN bwd_counter = {}

\* The back-substitution of the sink of a three-node graph with three edges
\* has just returned: three evictions, the source's last, the table empty.
C33_Witness ==
    /\ kind = "T" /\ pc = "evict" /\ prop_mode = "BACKWARD" /\ n = 3
    /\ clear_cache_during_running /\ ~DuplicateEdge /\ Cardinality(Edges) = 3
    /\ nodes_sorted[i] = Sink
    /\ \E f \in 1..Len(ops) :
          /\ ops[f] = Op("forward", Sink)
          /\ Len(BwdEvictionsAfter(f)) = 3
          /\ BwdEvictionsAfter(f)[3] = Source
    /\ DOMAIN bwd_counter = {}

\* The nodes whose step of run() is over: forward(), back-substitution
\* and the eviction of their predecessors.
Processed ==
    IF pc = "final" THEN Range(nodes_sorted)
    ELSE {nodes_sorted[k] : k \in 1..(i - 1)}

\* C34: between the steps of a TModel run with eviction enabled, every node
\* still in run()'s reference-count table has the count len(next_nodes)
\* minus the number of its distinct successors already processed; the count
\* is at least 1 for a node with successors and 0 for the sink, and only
\* the post-loop decrement, of the sink, yields a negative count.
C34_CountsBetweenSteps ==
    (kind = "T" /\ clear_cache_during_running
       /\ pc \in {"forward", "backsub", "evict", "final"}) =>
        /\ \A v \in DOMAIN cache_counter :
              /\ cache_counter[v] =
                    Len(next_nodes[v]) - Cardinality(Range(next_nodes[v]) \cap Processed)
              /\ Len(next_nodes[v]) > 0 => cache_counter[v] >= 1
              /\ Len(next_nodes[v]) = 0 => cache_counter[v] = 0
        /\ pc = "evict" =>
              \A v \in Range(pre_nodes[nodes_sorted[i]]) \cap DOMAIN cache_counter :
                 cache_counter[v] - 1 >= 0
        /\ (pc = "final" /\ nodes_sorted[Last] \in DOMAIN cache_counter
              /\ cache_counter[nodes_sorted[Last]] - 1 < 0) => nodes_sorted[Last] = Sink

\* Before the last step of a run over 1 -> 2 -> 3 with the extra edge
\* 1 -> 3 and one duplicate entry: the source has one consumer left, the
\* sink's count is 0.
C34_Witness ==
    /\ kind = "T" /\ clear_cache_during_running /\ pc = "forward" /\ i = 3 /\ n = 3
    /\ Cardinality(Edges) = 3
    /\ Cardinality(Range(next_nodes[Source])) = 2
    /\ Source \in DOMAIN cache_counter /\ cache_counter[Source] >= 1
    /\ Sink \in DOMAIN cache_counter /\ cache_counter[Sink] = 0
    /\ nodes_sorted[2] \in Processed

\* C35: for a fixed node sequence, fixed edge lists and a fixed strategy
\* the sorted order and the whole sequence of node operations are the same
\* in every execution: whichever order the iteration over set(pre_nodes)
\* takes, the eviction step appends the same callbacks in the same order.
C35_SameOperationsEveryExecution ==
    (pc = "evict" /\ clear_cache_during_running) =>
        \A o1, o2 \in Orders(Range(pre_nodes[nodes_sorted[i]])) :
           RunEvict(kind, EvSt(cache_counter, cache, ops), o1, Cls, pre_nodes, next_nodes).ops
             = RunEvict(kind, EvSt(cache_counter, cache, ops), o2, Cls, pre_nodes, next_nodes).ops

\* The length of the longest path from a node without predecessors to v
\* that has at most fuel edges (every path, on a graph without cycles).
RECURSIVE LongestPath(_, _, _)
LongestPath(v, P, fuel) ==
    IF fuel = 0 \/ P[v] = <<>> THEN 0
    ELSE LET ds == {LongestPath(p, P, fuel - 1) : p \in Range(P[v])}
         IN 1 + CHOOSE d \in ds : \A e \in ds : e <= d

\* The level of v in the graph the model sorted.
Level(v) == LongestPath(v, pre_nodes, n)

NoDuplicateEntries ==
    \A v \in 1..n : /\ Len(pre_nodes[v]) = Cardinality(Range(pre_nodes[v]))
                    /\ Len(next_nodes[v]) = Cardinality(Range(next_nodes[v]))

\* C36: on an accepted graph without duplicate edges the 'bfs' order is
\* wide-first: along the order the longest-path distance from the source
\* never decreases.
C36_BfsWideFirst ==
    (pc = "built" /\ sort_strategy = "bfs" /\ NoDuplicateEntries) =>
        \A a, b \in 1..Len(nodes_sorted) :
           a < b => Level(nodes_sorted[a]) <= Level(nodes_sorted[b])

\* A five-node graph sorted by 'bfs' on which some topological order is
\* not wide-first: a node of level 2 and a node of level 1 that is not
\* among its predecessors; the order has the level-1 node first.
C36_Witness ==
    /\ pc = "built" /\ sort_strategy = "bfs" /\ n = 5 /\ NoDuplicateEntries
    /\ \E b, c \in 1..n :
          /\ Level(b) = 1 /\ Level(c) = 2 /\ b \notin Range(pre_nodes[c])
          /\ Pos(nodes_sorted, b) < Pos(nodes_sorted, c)

\* The caller passed one node and wired no edge.
SingleNode == n = 1 /\ pc # "wiring" /\ pre0[1] = <<>> /\ next0[1] = <<>>

OpsNamed(S) == {k \in 1..Len(ops) : ops[k].op \in S}

\* C37: a single node without edges is accepted by reverse_dag, TModel and
\* T2Model, the node being both the input and the output; run() invokes
\* its forward() exactly once, starts no back-substitution, and invokes
\* its eviction callback exactly once when eviction is enabled (never
\* otherwise).
C37_SingleNode ==
    SingleNode =>
        /\ pc \notin {"reverse_raised", "sort_raised", "backsub"}
        /\ pc = "failed" => err.type = "UnknownStrategy"
        /\ pc \in {"reversed", "reversed_twice"} => (user_input = 1 /\ user_output = 1)
        /\ (kind = "T2" /\ pc # "failed") => (user_input = 1 /\ user_output = 1)
        /\ (Attempted /\ pc # "failed") => nodes_sorted = <<1>>
        /\ OpsNamed({"backward"}) = {}
        /\ Cardinality(Calls("forward", 1)) <= 1
        /\ Cardinality(OpsNamed(EvictionOps)) <= 1
        /\ pc \in {"done", "raised"} =>
              /\ Cardinality(Calls("forward", 1)) = 1
              /\ Cardinality(OpsNamed(EvictionOps)) =
                    IF clear_cache_during_running THEN 1 ELSE 0

\* A run over a single node with eviction enabled has ended: one forward(),
\* one eviction callback.
C37_Witness ==
    /\ SingleNode /\ pc \in {"done", "raised"} /\ clear_cache_during_running
    /\ Len(ops) = 2 /\ ops[1] = Op("forward", 1) /\ ops[2].op \in EvictionOps /\ ops[2].node = 1

\* What a constructor can end with: a model, or one of its exceptions.
Outcomes ==
    {"none", "UnknownStrategy", "Cycle", "NoInput", "MultipleInputs", "NoOutput",
     "MultipleOutputs", "AssertionError"}

\* The nodes the wide-first loop dequeues on the wired graph, in order.
BfsDequeued ==
    LET deg == in_degrees(Nodes(n), pre_nodes)
    IN BfsLoop(SelectSeq(Nodes(n), LAMBDA v : deg[v] = 0), <<>>, deg, next_nodes)

\* C38: construction ends on every wired node set, with cycles, self-loops
\* and duplicate entries included, by returning a model or by raising:
\* both constructors have an outcome under every strategy, the wide-first
\* loop dequeues no node twice, the depth-first sort completes no node
\* twice, and the ancestor closure of every node, computed on the wired
\* graph whether or not a sort accepts it, lists no node twice.
C38_ConstructionTerminates ==
    pc = "wiring" =>
        /\ \A k \in Kinds, s \in Strategies :
              ModelInit(k, Nodes(n), s, "BACKWARD", pre_nodes, next_nodes).err.type \in Outcomes
        /\ Len(BfsDequeued) <= n
        /\ Len(DfsRoots(Nodes(n), 1, DfsInit, pre_nodes, next_nodes).sorted_nodes) <= n
        /\ \A v \in 1..n :
              LET closure == BackwardSortOf(v, pre_nodes)
              IN Len(closure) = Cardinality(Range(closure)) /\ closure[1] = v

\* A wired graph with a cycle and a duplicate entry that the wide-first
\* constructor accepts, so that the ancestor closures are computed on a
\* cyclic graph.
C38_Witness ==
    /\ pc = "wiring" /\ HasCycle(next_nodes) /\ NumDup > 0
    /\ TModel_init(Nodes(n), "bfs", "BACKWARD", pre_nodes, next_nodes).err.type = "none"
    /\ TModel_init(Nodes(n), "dfs", "BACKWARD", pre_nodes, next_nodes).err.type = "Cycle"

=============================================================================
